---- MODULE Spec2Model ----
(***************************************************************************)
(* A model of cppemacs (include/cppemacs/core.hpp, utils.hpp): the         *)
(* exception translation at the noexcept entry point of a module function, *)
(* the ownership hand-off of a boxed closure in module_function_repr::make *)
(* and the arity dispatch of spread_invoker.                               *)
(*                                                                         *)
(* The host (Emacs) is not part of the repository.  It is modelled by the  *)
(* contract of the module API that the code relies on: an API call made    *)
(* while a non-local exit is pending does nothing, a call that fails       *)
(* leaves a signal pending and has no other effect, and a fresh            *)
(* environment starts with no exit pending.                                *)
(***************************************************************************)
EXTENDS Integers, Sequences, FiniteSets, TLC

VARIABLES
  env,        \* the pending exit state of the environment: [kind, symbol, data]
  pc,         \* position of the modelled native code
  Box,        \* the Box template argument of run_catching (CPPEMACS_ENABLE_EXCEPTION_BOXING)
  exc,        \* the C++ exception in flight / last caught
  envAtCatch, \* history: env at the moment the exception was caught
  \* module_function_repr<F>::make (boxed representation) and the host heap
  compat28,   \* nv.is_compatible<28>(): the host has function finalizers
  fptr,       \* TRUE while std::unique_ptr<F> fptr owns the heap F
  srcHolds,   \* TRUE while the caller's functor f still holds the captured state
  allocs,     \* number of times `new F' ran for the current closure
  deletes,    \* number of times the heap F was destroyed
  heap,       \* the host objects created by make that are not collected yet
  result,     \* the value make returned
  rooted,     \* the host still references the returned value
  log,        \* history: the statements of make executed so far
  made,       \* number of closures converted before the current one
  calls,      \* number of times the host has called the current closure
  dangling,   \* TRUE once the closure was called without a live heap F
  \* spread_invoker<MinArity, MaxArity, IsVariadic, F>
  MinArity, MaxArity, IsVariadic,
  nargs,      \* argc of the current call
  recv,       \* what the call did: the dispatch taken and what F received
  \* conversions: envw::inject / envw::extract<T>
  Unbox,      \* the Unbox template argument of the call
  Arg,        \* the static type of the value given to inject
  T,          \* the type argument of extract<T>
  val,        \* the host value being decoded
  src,        \* the native value that inject converted to val, if any
  ret,        \* what the call returned to native code, if it returned
  fault,      \* history: how the host answered the calls of the decode
  issued,     \* history: the first host call of the decode, and the exit state it met
  \* envw::is_compatible / check_compatible
  envSize,      \* raw->size of the running environment, in members
  MajorVersion, \* the template argument of the call
  compatible,   \* what is_compatible<MajorVersion>() returned
  \* envw::run_scoped
  IsNoexcept,   \* noexcept(f(env)): the callable is declared not to throw
  nested,       \* the pending exit state of the nested environment
  exn,          \* fdata.exn
  fexc,         \* history: the exception the callable threw
  \* module_function<F>::invoke on a converted closure
  Inline,       \* detail::can_stuff_into_void_ptr<F>: F is stored in the data word
  word,         \* the data word the host keeps for the function (inline: the bits of F)
  heapF,        \* the captured state of the heap F (boxed representation)
  got,          \* what the last call returned: the state F saw on entry
  passed,       \* history: the argument of every call so far
  \* an allocation handed to the host collector: the pointee of a user_ptr,
  \* or the std::exception_ptr of a boxed exception
  owner,        \* "none", "native", "host" (a user-ptr with a finalizer), "leaked", "freed"
  frees,        \* number of times the allocation was deallocated
  referenced,   \* the host still references the user-ptr
  is_init,      \* static bool is_init of run_catching_handle_current
  boxedX,       \* history: the exception thrown inside run_catching<true>
  hostOk        \* history: the host calls of the operation succeeded

catchVars == <<Box, exc, envAtCatch>>
makeVars == <<compat28, fptr, srcHolds, allocs, deletes, heap, result, rooted, log, made, calls, dangling>>
spreadVars == <<MinArity, MaxArity, IsVariadic, nargs, recv>>
convVars == <<Unbox, Arg, T, val, src, ret, fault, issued>>
verVars == <<envSize, MajorVersion, compatible>>
scopeVars == <<IsNoexcept, nested, exn, fexc>>
closureVars == <<Inline, word, heapF, got, passed>>
ownVars == <<owner, frees, referenced, is_init, boxedX, hostOk>>
extVars == <<verVars, scopeVars, closureVars, ownVars>>
vars == <<env, pc, catchVars, makeVars, spreadVars, convVars, extVars>>

----------------------------------------------------------------------------
(* Host values.  All values share one record shape so that they compare.   *)

NoVal == [k |-> "none", s |-> "", x |-> ""]
Sym(n) == [k |-> "sym", s |-> n, x |-> ""]
Str(t) == [k |-> "str", s |-> t, x |-> ""]
\* the one-element list ("t"), the data of a signal raised by (error "t")
List1(t) == [k |-> "list", s |-> t, x |-> ""]
\* a user-ptr holding a std::exception_ptr to an exception of type ty
UserPtrExn(ty, t) == [k |-> "uptr", s |-> t, x |-> ty]

\* emacs_funcall_exit / funcall_exit
ExitReturn == [kind |-> "return", symbol |-> NoVal, data |-> NoVal]
ExitSignal(sym, dat) == [kind |-> "signal", symbol |-> sym, data |-> dat]
ExitThrow(sym, dat) == [kind |-> "throw", symbol |-> sym, data |-> dat]

\* envw::non_local_exit_check
non_local_exit_check(nv) == nv.kind # "return"

\* envw::non_local_exit_signal: the host records the signal unless an exit
\* is already pending
non_local_exit_signal(nv, sym, dat) ==
  IF non_local_exit_check(nv) THEN nv ELSE ExitSignal(sym, dat)

\* envw::non_local_exit_throw
non_local_exit_throw(nv, sym, dat) ==
  IF non_local_exit_check(nv) THEN nv ELSE ExitThrow(sym, dat)

\* funcall(intern("error"), {make_string(msg)}): the host function `error'
\* signals `error' with the message as its data
funcall_error(nv, msg) ==
  IF non_local_exit_check(nv) THEN nv ELSE ExitSignal(Sym("error"), List1(msg))

\* funcall(intern("signal"), {tag, uptr})
funcall_signal(nv, tag, dat) ==
  IF non_local_exit_check(nv) THEN nv ELSE ExitSignal(tag, dat)

----------------------------------------------------------------------------
(* C++ exceptions.                                                         *)

NoExc == [type |-> "none", symbol |-> NoVal, data |-> NoVal, what |-> ""]
\* cppemacs::signal
signal(sym, dat) == [type |-> "signal", symbol |-> sym, data |-> dat, what |-> ""]
\* cppemacs::thrown
thrown(sym, dat) == [type |-> "thrown", symbol |-> sym, data |-> dat, what |-> ""]
\* cppemacs::non_local_exit
non_local_exit == [type |-> "non_local_exit", symbol |-> NoVal, data |-> NoVal, what |-> ""]
\* std::runtime_error(msg), dynamic type exactly std::runtime_error
runtime_error(msg) == [type |-> "runtime_error", symbol |-> NoVal, data |-> NoVal, what |-> msg]
\* another subclass of std::exception, e.g. std::logic_error(msg)
logic_error(msg) == [type |-> "logic_error", symbol |-> NoVal, data |-> NoVal, what |-> msg]
\* an exception of a type not derived from std::exception
other_exception == [type |-> "other", symbol |-> NoVal, data |-> NoVal, what |-> ""]

IsStdException(e) == e.type \in {"runtime_error", "logic_error"}

\* the result of a catch clause: the new exit state, and whether an
\* exception leaves the clause (a `throw;' inside a handler is not caught by
\* the other handlers of the same try block)
Handled(nv) == [env |-> nv, escaped |-> FALSE]
Rethrown(nv) == [env |-> nv, escaped |-> TRUE]

\* a catch clause that re-wraps the signal as a generic error
catch_signal_generic(nv, e) == Handled(funcall_error(nv, "Unrecognised exception"))

\* catch (const signal &s)
catch_signal(nv, e) == Handled(non_local_exit_signal(nv, e.symbol, e.data))

\* catch (const thrown &s)
catch_thrown(nv, e) == Handled(non_local_exit_throw(nv, e.symbol, e.data))

\* catch (const non_local_exit &)
catch_non_local_exit(box, nv, e) ==
  IF box THEN Rethrown(nv)
  ELSE Handled(funcall_error(nv, "Expected non-local exit"))

\* a catch clause that drops the what() text of the exception
catch_std_exception_lost(box, nv, e) ==
  IF box /\ e.type # "runtime_error" THEN Rethrown(nv)
  ELSE Handled(funcall_error(nv, "Unrecognised exception"))

\* catch (const std::exception &err)
catch_std_exception(box, nv, e) ==
  IF box /\ e.type # "runtime_error" THEN Rethrown(nv)
  ELSE Handled(funcall_error(nv, e.what))

\* catch (...)
catch_all(box, nv, e) ==
  IF box
  THEN Handled(funcall_signal(nv, Sym("cppemacs--exception"), UserPtrExn(e.type, e.what)))
  ELSE Handled(funcall_error(nv, "Unrecognised exception"))

\* a handler that clears a pending exit instead of leaving it alone
run_catching_handle_current_clearing(box, nv, e) ==
  CASE e.type = "signal" -> catch_signal(ExitReturn, e)
    [] e.type = "thrown" -> catch_thrown(ExitReturn, e)
    [] e.type = "non_local_exit" -> catch_non_local_exit(box, ExitReturn, e)
    [] IsStdException(e) -> catch_std_exception(box, ExitReturn, e)
    [] OTHER -> catch_all(box, ExitReturn, e)

\* envw::run_catching_handle_current<Box>
run_catching_handle_current(box, nv, e) ==
  IF non_local_exit_check(nv) THEN Handled(nv)
  ELSE CASE e.type = "signal" -> catch_signal(nv, e)
         [] e.type = "thrown" -> catch_thrown(nv, e)
         [] e.type = "non_local_exit" -> catch_non_local_exit(box, nv, e)
         [] IsStdException(e) -> catch_std_exception(box, nv, e)
         [] OTHER -> catch_all(box, nv, e)

----------------------------------------------------------------------------
(* Inputs.                                                                 *)

Tags == {Sym("error"), Sym("hello")}
Datas == {List1("C++ error"), Sym("thrown-value")}
Whats == {"C++ runtime error", "Bad arity"}

Exceptions ==
  {signal(t, d) : t \in Tags, d \in Datas} \cup
  {thrown(t, d) : t \in Tags, d \in Datas} \cup
  {non_local_exit, other_exception} \cup
  {runtime_error(w) : w \in Whats} \cup {logic_error(w) : w \in Whats}

PendingExits ==
  {ExitSignal(t, d) : t \in Tags, d \in Datas} \cup
  {ExitThrow(t, d) : t \in Tags, d \in Datas}

\* the host heap before make has created anything
EmptyHeap == [retfn |-> FALSE, retfnFin |-> FALSE, sym |-> FALSE,
              symFn |-> FALSE, symPlist |-> FALSE, uptr |-> FALSE]
\* nullptr, and the index of no table entry
Null == -1
\* a parameter of F filled from unprovided_value_t: a default-constructed T
Default == -2
\* nothing received: F has not been invoked
\* no host value, no native value, no host answer recorded
NoHostValue == [k |-> "none", s |-> "", n |-> 0, fin |-> ""]
NoNative == [ty |-> "none", s |-> "", n |-> 0]
NoFault == [len |-> TRUE, fill |-> TRUE, pending |-> TRUE]
NoCall == [fn |-> "none", pending |-> FALSE]
NoRecv == [called |-> 0, params |-> <<>>, hasRest |-> FALSE, rest |-> [data |-> Null, size |-> 0],
           reads |-> {}, vtIndex |-> Null, vtArity |-> Null, ub |-> FALSE]

MakeIdle ==
  /\ compat28 = FALSE /\ fptr = FALSE /\ srcHolds = FALSE
  /\ allocs = 0 /\ deletes = 0 /\ heap = EmptyHeap
  /\ result = "none" /\ rooted = FALSE /\ log = <<>>
  /\ made = 0 /\ calls = 0 /\ dangling = FALSE

SpreadIdle ==
  /\ MinArity = 0 /\ MaxArity = 0 /\ IsVariadic = FALSE
  /\ nargs = 0 /\ recv = NoRecv

ConvIdle ==
  /\ Unbox = FALSE
  /\ Arg = "none"
  /\ T = "none" /\ val = NoHostValue /\ src = NoNative
  /\ ret = NoNative /\ fault = NoFault /\ issued = NoCall

VerIdle == envSize = 0 /\ MajorVersion = 0 /\ compatible = FALSE

ScopeIdle ==
  /\ IsNoexcept = FALSE /\ nested = ExitReturn /\ exn = NoExc /\ fexc = NoExc

\* a data word: a pointer to the heap F, or the bits of an inline F
NoWord == [ptr |-> FALSE, bits |-> 0]

ClosureIdle ==
  /\ Inline = FALSE /\ word = NoWord /\ heapF = 0 /\ got = 0 /\ passed = <<>>

OwnIdle ==
  /\ owner = "none" /\ frees = 0 /\ referenced = FALSE
  /\ is_init = FALSE /\ boxedX = NoExc /\ hostOk = TRUE

ExtIdle == VerIdle /\ ScopeIdle /\ ClosureIdle /\ OwnIdle

----------------------------------------------------------------------------
(* The entry point module_function<F>::invoke for a callable F that may    *)
(* throw: envw(nv).run_catching(...) -> run_catching_internal.             *)

InitCatch ==
  /\ env = ExitReturn
  /\ pc = "idle"
  /\ Box \in BOOLEAN
  /\ exc = NoExc
  /\ envAtCatch = ExitReturn
  /\ MakeIdle
  /\ SpreadIdle
  /\ ConvIdle
  /\ ExtIdle

\* the host calls the module function with a fresh environment
HostCalls ==
  /\ pc = "idle"
  /\ pc' = "body"
  /\ env' = ExitReturn
  /\ exc' = NoExc
  /\ envAtCatch' = ExitReturn
  /\ UNCHANGED <<Box, makeVars, spreadVars, convVars, extVars>>

\* F calls a host function that exits non-locally
BodyHostCallExits ==
  /\ pc = "body"
  /\ ~non_local_exit_check(env)
  /\ \E x \in PendingExits : env' = x
  /\ UNCHANGED <<pc, catchVars, makeVars, spreadVars, convVars, extVars>>

\* F throws: control reaches catch(...) of run_catching_internal
BodyThrows ==
  /\ pc = "body"
  /\ \E e \in Exceptions : exc' = e
  /\ pc' = "caught"
  /\ envAtCatch' = env
  /\ UNCHANGED <<env, Box, makeVars, spreadVars, convVars, extVars>>

\* F returns a value
BodyReturns ==
  /\ pc = "body"
  /\ pc' = "returned"
  /\ UNCHANGED <<env, catchVars, makeVars, spreadVars, convVars, extVars>>

\* catch(...) { run_catching_handle_current(BoxV{}); } return return_type();
\* an exception leaving the noexcept function calls std::terminate
RunCatchingHandle ==
  /\ pc = "caught"
  /\ LET r == run_catching_handle_current(Box, env, exc) IN
       /\ env' = r.env
       /\ pc' = IF r.escaped THEN "terminated" ELSE "returned"
  /\ UNCHANGED <<catchVars, makeVars, spreadVars, convVars, extVars>>

\* the host takes over the outcome of the call
HostResumes ==
  /\ pc = "returned"
  /\ pc' = "idle"
  /\ UNCHANGED <<env, catchVars, makeVars, spreadVars, convVars, extVars>>

NextCatch ==
  \/ HostCalls
  \/ BodyHostCallExits
  \/ BodyThrows
  \/ BodyReturns
  \/ RunCatchingHandle
  \/ HostResumes

SpecCatch == InitCatch /\ [][NextCatch]_vars

----------------------------------------------------------------------------
(* module_function_repr<F>::make, the boxed representation: F is moved to  *)
(* the heap and handed over to the host's collector.  Every statement of   *)
(* make is one step; the host calls may fail.                              *)

\* bounds of the exploration
MaxClosures == 2
MaxCalls == 2

\* the exit a failing host call leaves pending
HostFailure == ExitSignal(Sym("error"), List1("host call failed"))

\* a host API call: it does nothing while an exit is pending, and otherwise
\* either succeeds (ok) or fails and leaves a signal pending
host_call(nv, ok) == IF non_local_exit_check(nv) \/ ok THEN nv ELSE HostFailure
host_call_done(nv, ok) == ~non_local_exit_check(nv) /\ ok

\* an order of the statements in which ownership is released before the
\* finalizer-bearing object is confirmed
make_next_release_first(pos, c28) ==
  CASE pos = "entry" -> "make_function"
    [] pos = "make_function" -> IF c28 THEN "set_function_finalizer" ELSE "make_symbol"
    [] pos = "set_function_finalizer" -> "check_finalizer"
    [] pos = "check_finalizer" -> "release_fin"
    [] pos = "release_fin" -> "returned"
    [] pos = "make_symbol" -> "defalias"
    [] pos = "defalias" -> "make_user_ptr"
    [] pos = "make_user_ptr" -> "release_uptr"
    [] pos = "release_uptr" -> "check_user_ptr"
    [] pos = "check_user_ptr" -> "put"
    [] pos = "put" -> "check_put"
    [] pos = "check_put" -> "returned"

\* the order of the statements of make
make_next(pos, c28) ==
  CASE pos = "entry" -> "make_function"
    [] pos = "make_function" -> IF c28 THEN "set_function_finalizer" ELSE "make_symbol"
    [] pos = "set_function_finalizer" -> "check_finalizer"
    [] pos = "check_finalizer" -> "release_fin"
    [] pos = "release_fin" -> "returned"
    [] pos = "make_symbol" -> "defalias"
    [] pos = "defalias" -> "make_user_ptr"
    [] pos = "make_user_ptr" -> "check_user_ptr"
    [] pos = "check_user_ptr" -> "release_uptr"
    [] pos = "release_uptr" -> "put"
    [] pos = "put" -> "check_put"
    [] pos = "check_put" -> "returned"

\* a raw pointer in place of the unique_ptr: nothing is destroyed on return
unique_ptr_dtor_leak(owns) == 0

\* ~unique_ptr<F>() when make returns: the number of F destroyed
unique_ptr_dtor(owns) == IF owns THEN 1 ELSE 0

\* user_ptr<F>::fin run by the collector: the number of F destroyed
fin(attached) == IF attached THEN 1 ELSE 0

\* sptr.use_count() of a reference-counted handle captured by F: the
\* caller's handle, the caller's functor, and the heap F
use_count == 1 + (IF srcHolds THEN 1 ELSE 0) + (allocs - deletes)

InitMake ==
  /\ env = ExitReturn
  /\ pc = "idle"
  /\ Box = FALSE /\ exc = NoExc /\ envAtCatch = ExitReturn
  /\ compat28 \in BOOLEAN
  /\ fptr = FALSE /\ srcHolds = FALSE
  /\ allocs = 0 /\ deletes = 0 /\ heap = EmptyHeap
  /\ result = "none" /\ rooted = FALSE /\ log = <<>>
  /\ made = 0 /\ calls = 0 /\ dangling = FALSE
  /\ SpreadIdle
  /\ ConvIdle
  /\ ExtIdle

\* native code builds a module_function and converts it (to_emacs), with or
\* without an exit pending on the environment
MakeBegin ==
  /\ pc = "idle"
  /\ pc' = "entry"
  /\ env' \in {ExitReturn, HostFailure, ExitThrow(Sym("hello"), Sym("thrown-value"))}
  /\ srcHolds' = TRUE
  /\ UNCHANGED <<catchVars, compat28, fptr, allocs, deletes, heap, result, rooted, log, made, calls, dangling, spreadVars, convVars, extVars>>

\* return nullptr; the destructor of fptr runs
ReturnNull ==
  /\ deletes' = deletes + unique_ptr_dtor(fptr)
  /\ fptr' = FALSE
  /\ result' = "null"
  /\ pc' = "returned"

\* if (nv.non_local_exit_check()) return nullptr;
\* std::unique_ptr<F> fptr(new F(std::move(f)));
MakeEntry ==
  /\ pc = "entry"
  /\ IF non_local_exit_check(env)
     THEN /\ ReturnNull
          /\ log' = Append(log, "return_null")
          /\ UNCHANGED <<srcHolds, allocs>>
     ELSE /\ allocs' = allocs + 1
          /\ fptr' = TRUE
          /\ srcHolds' = FALSE
          /\ pc' = make_next(pc, compat28)
          /\ log' = Append(log, "new")
          /\ UNCHANGED <<deletes, result>>
  /\ UNCHANGED <<env, catchVars, compat28, heap, rooted, made, calls, dangling, spreadVars, convVars, extVars>>

\* value retfn = nv.make_function(min_arity, max_arity, fun, doc, fptr_data);
MakeFunction ==
  /\ pc = "make_function"
  /\ \E ok \in BOOLEAN :
       /\ env' = host_call(env, ok)
       /\ heap' = IF host_call_done(env, ok) THEN [heap EXCEPT !.retfn = TRUE] ELSE heap
  /\ pc' = make_next(pc, compat28)
  /\ log' = Append(log, "make_function")
  /\ UNCHANGED <<catchVars, compat28, fptr, srcHolds, allocs, deletes, result, rooted, made, calls, dangling, spreadVars, convVars, extVars>>

\* nv.set_function_finalizer(retfn, fin);
SetFunctionFinalizer ==
  /\ pc = "set_function_finalizer"
  /\ \E ok \in BOOLEAN :
       /\ env' = host_call(env, ok)
       /\ heap' = IF host_call_done(env, ok) THEN [heap EXCEPT !.retfnFin = TRUE] ELSE heap
  /\ pc' = make_next(pc, compat28)
  /\ log' = Append(log, "set_function_finalizer")
  /\ UNCHANGED <<catchVars, compat28, fptr, srcHolds, allocs, deletes, result, rooted, made, calls, dangling, spreadVars, convVars, extVars>>

\* if (nv.non_local_exit_check()) return nullptr;   (after the host call `what')
CheckAfter(what) ==
  /\ IF non_local_exit_check(env)
     THEN /\ ReturnNull
          /\ log' = Append(log, "return_null")
     ELSE /\ pc' = make_next(pc, compat28)
          /\ log' = Append(log, "confirmed:" \o what)
          /\ result' = IF pc' = "returned" THEN "func_sym" ELSE result
          /\ UNCHANGED <<fptr, deletes>>
  /\ UNCHANGED <<env, catchVars, compat28, srcHolds, allocs, heap, rooted, made, calls, dangling, spreadVars, convVars, extVars>>

CheckFinalizer == pc = "check_finalizer" /\ CheckAfter("set_function_finalizer")

\* fptr.release();   (and, on the direct path, return retfn;)
Release ==
  /\ pc \in {"release_fin", "release_uptr"}
  /\ fptr' = FALSE
  /\ pc' = make_next(pc, compat28)
  /\ result' = IF pc' = "returned" THEN "retfn" ELSE result
  /\ log' = Append(log, "release")
  /\ UNCHANGED <<env, catchVars, compat28, srcHolds, allocs, deletes, heap, rooted, made, calls, dangling, spreadVars, convVars, extVars>>

\* value func_sym = (nv->*make_symbol)(nv.make_string("cpp--finalized-fun"));
MakeSymbol ==
  /\ pc = "make_symbol"
  /\ \E ok \in BOOLEAN :
       /\ env' = host_call(env, ok)
       /\ heap' = IF host_call_done(env, ok) THEN [heap EXCEPT !.sym = TRUE] ELSE heap
  /\ pc' = make_next(pc, compat28)
  /\ log' = Append(log, "make_symbol")
  /\ UNCHANGED <<catchVars, compat28, fptr, srcHolds, allocs, deletes, result, rooted, made, calls, dangling, spreadVars, convVars, extVars>>

\* (nv->*nv.intern("defalias"))(func_sym, retfn);
Defalias ==
  /\ pc = "defalias"
  /\ \E ok \in BOOLEAN :
       /\ env' = host_call(env, ok)
       /\ heap' = IF host_call_done(env, ok) THEN [heap EXCEPT !.symFn = TRUE] ELSE heap
  /\ pc' = make_next(pc, compat28)
  /\ log' = Append(log, "defalias")
  /\ UNCHANGED <<catchVars, compat28, fptr, srcHolds, allocs, deletes, result, rooted, made, calls, dangling, spreadVars, convVars, extVars>>

\* value finalizer = nv.make_user_ptr(fin, fptr_data);
MakeUserPtr ==
  /\ pc = "make_user_ptr"
  /\ \E ok \in BOOLEAN :
       /\ env' = host_call(env, ok)
       /\ heap' = IF host_call_done(env, ok) THEN [heap EXCEPT !.uptr = TRUE] ELSE heap
  /\ pc' = make_next(pc, compat28)
  /\ log' = Append(log, "make_user_ptr")
  /\ UNCHANGED <<catchVars, compat28, fptr, srcHolds, allocs, deletes, result, rooted, made, calls, dangling, spreadVars, convVars, extVars>>

CheckUserPtr == pc = "check_user_ptr" /\ CheckAfter("make_user_ptr")

\* nv.funcall(nv.intern("put"), {func_sym, (nv->*"cpp--data-ptr"), finalizer});
Put ==
  /\ pc = "put"
  /\ \E ok \in BOOLEAN :
       /\ env' = host_call(env, ok)
       /\ heap' = IF host_call_done(env, ok) THEN [heap EXCEPT !.symPlist = TRUE] ELSE heap
  /\ pc' = make_next(pc, compat28)
  /\ log' = Append(log, "put")
  /\ UNCHANGED <<catchVars, compat28, fptr, srcHolds, allocs, deletes, result, rooted, made, calls, dangling, spreadVars, convVars, extVars>>

\* if (nv.non_local_exit_check()) return nullptr;  return func_sym;
CheckPut == pc = "check_put" /\ CheckAfter("put")

\* the native caller returns to the host: its functor is destroyed, the
\* environment's local references die, and the host keeps the value or not
NativeReturns ==
  /\ pc = "returned"
  /\ pc' = "host"
  /\ srcHolds' = FALSE
  /\ \E keep \in BOOLEAN : rooted' = (keep /\ result # "null")
  /\ UNCHANGED <<env, catchVars, compat28, fptr, allocs, deletes, heap, result, log, made, calls, dangling, spreadVars, convVars, extVars>>

\* the host drops its last reference to the returned value
HostDrops ==
  /\ pc = "host"
  /\ rooted
  /\ rooted' = FALSE
  /\ UNCHANGED <<env, pc, catchVars, compat28, fptr, srcHolds, allocs, deletes, heap, result, log, made, calls, dangling, spreadVars, convVars, extVars>>

\* what the collector can still reach from the returned value
ReachSym == rooted /\ result = "func_sym" /\ heap.sym
ReachRetfn == heap.retfn /\ ((rooted /\ result = "retfn") \/ (ReachSym /\ heap.symFn))
ReachUptr == heap.uptr /\ ReachSym /\ heap.symPlist

\* a collection cycle: every unreachable object is freed and its finalizer run
GarbageCollect ==
  /\ pc = "host"
  /\ \/ heap.retfn /\ ~ReachRetfn
     \/ heap.sym /\ ~ReachSym
     \/ heap.uptr /\ ~ReachUptr
  /\ deletes' = deletes
       + fin(heap.retfn /\ ~ReachRetfn /\ heap.retfnFin)
       + fin(heap.uptr /\ ~ReachUptr)
  /\ heap' = [retfn |-> ReachRetfn,
              retfnFin |-> ReachRetfn /\ heap.retfnFin,
              sym |-> ReachSym,
              symFn |-> ReachSym /\ heap.symFn,
              symPlist |-> ReachSym /\ heap.symPlist,
              uptr |-> ReachUptr]
  /\ UNCHANGED <<env, pc, catchVars, compat28, fptr, srcHolds, allocs, result, rooted, log, made, calls, dangling, spreadVars, convVars, extVars>>

\* everything make created has been collected
Collected == pc = "host" /\ ~rooted /\ heap = EmptyHeap

\* module_function<F>::invoke: data_repr::extract(data)(nv, nargs, args),
\* a call of the host function by the host while it is reachable
HostCallsClosure ==
  /\ pc = "host"
  /\ ReachRetfn
  /\ calls < MaxCalls
  /\ calls' = calls + 1
  /\ dangling' = (dangling \/ allocs - deletes # 1)
  /\ UNCHANGED <<env, pc, catchVars, compat28, fptr, srcHolds, allocs, deletes, heap, result, rooted, log, made, spreadVars, convVars, extVars>>

\* native code goes on to the next closure
NextClosure ==
  /\ Collected
  /\ made < MaxClosures
  /\ made' = made + 1
  /\ calls' = 0
  /\ pc' = "idle"
  /\ env' = ExitReturn
  /\ fptr' = FALSE /\ srcHolds' = FALSE
  /\ allocs' = 0 /\ deletes' = 0
  /\ result' = "none" /\ log' = <<>>
  /\ UNCHANGED <<catchVars, compat28, heap, rooted, dangling, spreadVars, convVars, extVars>>

NextMake ==
  \/ MakeBegin
  \/ MakeEntry
  \/ MakeFunction
  \/ SetFunctionFinalizer
  \/ CheckFinalizer
  \/ Release
  \/ MakeSymbol
  \/ Defalias
  \/ MakeUserPtr
  \/ CheckUserPtr
  \/ Put
  \/ CheckPut
  \/ NativeReturns
  \/ HostDrops
  \/ GarbageCollect
  \/ HostCallsClosure
  \/ NextClosure

SpecMake == InitMake /\ [][NextMake]_vars

----------------------------------------------------------------------------
(* detail::spread_invoker<MinArity, MaxArity, IsVariadic, F>: the arity    *)
(* dispatch of a spreader function.  The argument array of a call is       *)
(* args[0 .. nargs-1]; the cell wrapping args[i] is written i, and a       *)
(* pointer args + i is written i.                                          *)

\* bounds of the exploration
MaxArityBound == 3
MaxArgc == 5

\* spreader_restargs(value *args, size_t nargs): the view keeps both
spreader_restargs(args, n) == [data |-> args, size |-> n]

\* detail::arg_or_default<IsProvided>(nv, args, idx)
arg_or_default(IsProvided, idx) == IF IsProvided THEN idx ELSE Default

\* what F receives from asserted_call(nv, arg_or_default<Idx < NArgs>(nv, args, Idx)...)
\* for Idx in arity_seq = 0 .. MaxArity-1, with the view when variadic
invoke_with_arity(NArgs, maxArity, isVar) ==
  [called |-> 1,
   params |-> [i \in 1..maxArity |-> arg_or_default(i - 1 < NArgs, i - 1)],
   hasRest |-> isVar,
   rest |-> spreader_restargs(Null, 0),
   reads |-> {i \in 0..(maxArity - 1) : i < NArgs}]

\* spreader_caller<true, SI>::invoke_variadic<CallArity>
invoke_variadic(CallArity, maxArity, n) ==
  [called |-> 1,
   params |-> [i \in 1..maxArity |-> arg_or_default(TRUE, i - 1)],
   hasRest |-> TRUE,
   rest |-> spreader_restargs(CallArity, n - CallArity),
   reads |-> 0..(maxArity - 1)]

\* the table Vt of spread_invoker::invoke: entry OffIdx is the handler
\* invoke_with_arity<MinArity + OffIdx>
Vt(minArity, maxArity) == [OffIdx \in 0..(maxArity - minArity) |-> minArity + OffIdx]

\* the subscript of Vt in `return Vt[nargs](this, nv, args);'
vt_subscript(n, minArity) == n

\* an arity check that forgets the lower bound
bad_arity_upper_only(n, minArity, maxArity) == n > maxArity

\* `nargs < MinArity || nargs > MaxArity'
bad_arity(n, minArity, maxArity) == n < minArity \/ n > maxArity

\* the possible outcomes of spread_invoker::invoke.  Reading Vt past its end
\* is undefined: the call crashes, or jumps to some handler
invoke(minArity, maxArity, isVar, n) ==
  IF isVar /\ n > maxArity
  THEN {[kind |-> "ok", vtIndex |-> Null, vtArity |-> Null, ub |-> FALSE,
         got |-> invoke_variadic(maxArity, maxArity, n)]}
  ELSE IF bad_arity(n, minArity, maxArity)
  THEN {[kind |-> "throw", vtIndex |-> Null, vtArity |-> Null, ub |-> FALSE,
         got |-> invoke_with_arity(0, 0, FALSE)]}
  ELSE LET idx == vt_subscript(n, minArity)
           table == Vt(minArity, maxArity)
       IN IF idx \in DOMAIN table
          THEN {[kind |-> "ok", vtIndex |-> idx, vtArity |-> table[idx], ub |-> FALSE,
                 got |-> invoke_with_arity(table[idx], maxArity, isVar)]}
          ELSE {[kind |-> "crash", vtIndex |-> idx, vtArity |-> Null, ub |-> TRUE,
                 got |-> invoke_with_arity(0, 0, FALSE)]}
               \cup
               {[kind |-> "ok", vtIndex |-> idx, vtArity |-> a, ub |-> TRUE,
                 got |-> invoke_with_arity(a, maxArity, isVar)] : a \in 0..maxArity}

\* MAX_ARITY for variadic functions
emacs_variadic_function == -2

\* the max_arity that make_spreader_function hands to make_module_function,
\* and module_function to make_function: `MinArity, MaxArity, doc, ...'
spreader_max_arity(maxArity, isVar) == maxArity

\* the host's arity check of a module function made with
\* make_function(min_arity, max_arity, ...)
host_accepts(n, min_arity, max_arity) ==
  min_arity <= n /\ (max_arity = emacs_variadic_function \/ n <= max_arity)

\* the signal of the host for a call it rejects
WrongNumberOfArguments == ExitSignal(Sym("wrong-number-of-arguments"), NoVal)

InitSpread ==
  /\ env = ExitReturn
  /\ pc = "idle"
  /\ Box \in BOOLEAN
  /\ exc = NoExc /\ envAtCatch = ExitReturn
  /\ MakeIdle
  /\ ConvIdle
  /\ ExtIdle
  /\ MinArity \in 0..MaxArityBound
  /\ MaxArity \in MinArity..MaxArityBound
  /\ IsVariadic \in BOOLEAN
  /\ nargs = 0
  /\ recv = NoRecv

\* the host calls the module function with nargs arguments and a fresh
\* environment (a host that enforces the registered arity only calls with
\* nargs in range; a forced call may use any nargs)
HostCallsSpreader ==
  /\ pc = "idle"
  /\ pc' = "invoke"
  /\ nargs' \in 0..MaxArgc
  /\ env' = ExitReturn
  /\ exc' = NoExc
  /\ envAtCatch' = ExitReturn
  /\ recv' = NoRecv
  /\ UNCHANGED <<Box, makeVars, convVars, extVars, MinArity, MaxArity, IsVariadic>>

\* Lisp code calls the function made by make_spreader_function: the host
\* checks nargs against the registered arity before it enters native code
HostFuncallsSpreader ==
  /\ pc = "idle"
  /\ \E n \in 0..MaxArgc :
       /\ nargs' = n
       /\ IF host_accepts(n, MinArity, spreader_max_arity(MaxArity, IsVariadic))
          THEN pc' = "invoke" /\ env' = ExitReturn
          ELSE pc' = "rejected" /\ env' = WrongNumberOfArguments
  /\ exc' = NoExc
  /\ envAtCatch' = ExitReturn
  /\ recv' = NoRecv
  /\ UNCHANGED <<Box, makeVars, convVars, extVars, MinArity, MaxArity, IsVariadic>>

\* the signal of a rejected call unwinds in the host
HostUnwinds ==
  /\ pc = "rejected"
  /\ pc' = "idle"
  /\ env' = ExitReturn
  /\ UNCHANGED <<catchVars, makeVars, spreadVars, convVars, extVars>>

\* spread_invoker::operator(): nv.run_catching([&] { return invoke(...); })
SpreadInvoke ==
  /\ pc = "invoke"
  /\ \E o \in invoke(MinArity, MaxArity, IsVariadic, nargs) :
       /\ recv' = [called |-> IF o.kind = "ok" THEN o.got.called ELSE 0,
                   params |-> IF o.kind = "ok" THEN o.got.params ELSE <<>>,
                   hasRest |-> o.kind = "ok" /\ o.got.hasRest,
                   rest |-> IF o.kind = "ok" THEN o.got.rest ELSE spreader_restargs(Null, 0),
                   reads |-> IF o.kind = "ok" THEN o.got.reads ELSE {},
                   vtIndex |-> o.vtIndex, vtArity |-> o.vtArity, ub |-> o.ub]
       /\ IF o.kind = "throw"
          THEN LET e == runtime_error("Bad arity")
                   r == run_catching_handle_current(Box, env, e)
               IN /\ exc' = e
                  /\ envAtCatch' = env
                  /\ env' = r.env
                  /\ pc' = IF r.escaped THEN "terminated" ELSE "returned"
          ELSE /\ pc' = IF o.kind = "crash" THEN "crashed" ELSE "returned"
               /\ UNCHANGED <<env, exc, envAtCatch>>
  /\ UNCHANGED <<Box, makeVars, convVars, extVars, MinArity, MaxArity, IsVariadic, nargs>>

\* the host takes over the outcome of the call
HostResumesSpreader ==
  /\ pc = "returned"
  /\ pc' = "idle"
  /\ UNCHANGED <<env, catchVars, makeVars, spreadVars, convVars, extVars>>

NextSpread ==
  \/ HostCallsSpreader
  \/ HostFuncallsSpreader
  \/ HostUnwinds
  \/ SpreadInvoke
  \/ HostResumesSpreader

SpecSpread == InitSpread /\ [][NextSpread]_vars


----------------------------------------------------------------------------
(* Conversions (conversions.hpp, core.hpp, utils.hpp).  The integer types  *)
(* are scaled down: intmax_t has IntmaxDigits value bits and every other   *)
(* width is derived from it, so two's complement ranges, the fixnum/bignum *)
(* boundary of uintmax_t and the narrowing checks keep their shape.  Host  *)
(* integers are unbounded; the model draws them from a range that extends  *)
(* past both ends of intmax_t and uintmax_t.                               *)

\* bound of the exploration: std::numeric_limits<intmax_t>::digits
IntmaxDigits == 4

RECURSIVE Pow2(_)
Pow2(n) == IF n = 0 THEN 1 ELSE 2 * Pow2(n - 1)

SignedTypes == {"short", "int", "intmax_t"}
IntegralTypes == SignedTypes \cup {"unsigned short", "uintmax_t"}

\* std::numeric_limits<t>::digits
digits(t) ==
  CASE t = "short" -> IntmaxDigits - 2
    [] t = "int" -> IntmaxDigits - 1
    [] t = "unsigned short" -> IntmaxDigits - 1
    [] t = "intmax_t" -> IntmaxDigits
    [] t = "uintmax_t" -> IntmaxDigits + 1

\* std::numeric_limits<t>::min() and max()
numeric_limits_min(t) == IF t \in SignedTypes THEN -Pow2(digits(t)) ELSE 0
numeric_limits_max(t) == Pow2(digits(t)) - 1

\* detail::is_integral_smaller_than_intmax<t>
is_integral_smaller_than_intmax(t) ==
  t \in IntegralTypes /\ digits(t) <= digits("intmax_t")

\* std::numeric_limits<emacs_limb_t>::digits: the static_assert on
\* CPPEMACS_UINTMAX_ONE_LIMB only accepts a limb as wide as uintmax_t
limb_digits == digits("uintmax_t")

\* detail::uintmax_limb_count
uintmax_limb_count == 1 + (limb_digits - 1) \div digits("uintmax_t")

\* host values of the conversions: integers, strings, symbols, floats and
\* user pointers (fin names the finalizer, n the raw pointer)
HInt(n) == [k |-> "int", s |-> "", n |-> n, fin |-> ""]
HStr(t) == [k |-> "str", s |-> t, n |-> 0, fin |-> ""]
HSym(t) == [k |-> "sym", s |-> t, n |-> 0, fin |-> ""]
HFloat(n) == [k |-> "float", s |-> "", n |-> n, fin |-> ""]
HUserPtr(f, ptr) == [k |-> "uptr", s |-> "", n |-> ptr, fin |-> f]

\* native values
NInt(n) == [ty |-> "int", s |-> "", n |-> n]
NStr(t) == [ty |-> "string", s |-> t, n |-> 0]
NBool(b) == [ty |-> "bool", s |-> "", n |-> IF b THEN 1 ELSE 0]
NFloat(n) == [ty |-> "float", s |-> "", n |-> n]
NPtr(t, ptr) == [ty |-> "user_ptr", s |-> t, n |-> ptr]
Void == [ty |-> "void", s |-> "", n |-> 0]

\* how a call ends: it returns v, or the exception e leaves it; nv is the
\* exit state it leaves behind
Returns(nv, v) == [env |-> nv, threw |-> FALSE, ret |-> v, exc |-> NoExc]
Throws(nv, e) == [env |-> nv, threw |-> TRUE, ret |-> NoNative, exc |-> e]

\* the signals of the host's own checks
WrongTypeArgument == ExitSignal(Sym("wrong-type-argument"), NoVal)
OverflowError == ExitSignal(Sym("overflow-error"), NoVal)
ArgsOutOfRange == ExitSignal(Sym("args-out-of-range"), NoVal)

\* envw::non_local_exit_clear
non_local_exit_clear(nv) == ExitReturn

\* envw::make_integer
make_integer(n) == HInt(n)

\* envw::extract_integer: r is the value returned, meaningless (0) when the
\* host leaves an exit pending
extract_integer(nv, v) ==
  IF non_local_exit_check(nv) THEN [env |-> nv, r |-> 0]
  ELSE IF v.k # "int" THEN [env |-> WrongTypeArgument, r |-> 0]
  ELSE IF v.n < numeric_limits_min("intmax_t") \/ v.n > numeric_limits_max("intmax_t")
  THEN [env |-> OverflowError, r |-> 0]
  ELSE [env |-> nv, r |-> v.n]

\* envw::make_big_integer(sign, count, magnitude) with count = 1
make_big_integer(sign, magnitude) == HInt(sign * magnitude)

\* the number of limbs the magnitude m needs
RECURSIVE limbs_needed(_)
limbs_needed(m) == IF m < Pow2(limb_digits) THEN 1 ELSE 1 + limbs_needed(m \div Pow2(limb_digits))

\* envw::extract_big_integer(arg, &sign, &count, magnitude) with count limbs
\* of room.  The call answers or reports failure through its result;
\* `leaves' says whether a reported failure leaves a signal pending
extract_big_integer(nv, v, count, answers, leaves) ==
  IF non_local_exit_check(nv)
  THEN [env |-> nv, res |-> FALSE, sign |-> 0, magnitude |-> 0]
  ELSE IF ~answers
  THEN [env |-> IF leaves THEN HostFailure ELSE nv, res |-> FALSE, sign |-> 0, magnitude |-> 0]
  ELSE IF v.k # "int"
  THEN [env |-> WrongTypeArgument, res |-> FALSE, sign |-> 0, magnitude |-> 0]
  ELSE IF v.n = 0
  THEN [env |-> nv, res |-> TRUE, sign |-> 0, magnitude |-> 0]
  ELSE LET m == IF v.n < 0 THEN -v.n ELSE v.n IN
       IF count < limbs_needed(m)
       THEN [env |-> OverflowError, res |-> FALSE, sign |-> 0, magnitude |-> 0]
       ELSE [env |-> nv, res |-> TRUE, sign |-> IF v.n < 0 THEN -1 ELSE 1, magnitude |-> m]

\* envw::copy_string_contents(value, buffer, size): buffer is FALSE for a
\* null buffer.  res is the result, size the length written back, str the
\* bytes copied (without the terminator)
copy_string_contents(nv, v, buffer, size, answers, leaves) ==
  IF non_local_exit_check(nv)
  THEN [env |-> nv, res |-> FALSE, size |-> size, str |-> ""]
  ELSE IF ~answers
  THEN [env |-> IF leaves THEN HostFailure ELSE nv, res |-> FALSE, size |-> size, str |-> ""]
  ELSE IF v.k # "str"
  THEN [env |-> WrongTypeArgument, res |-> FALSE, size |-> size, str |-> ""]
  ELSE IF ~buffer
  THEN [env |-> nv, res |-> TRUE, size |-> Len(v.s) + 1, str |-> ""]
  ELSE IF size < Len(v.s) + 1
  THEN [env |-> ArgsOutOfRange, res |-> FALSE, size |-> Len(v.s) + 1, str |-> ""]
  ELSE [env |-> nv, res |-> TRUE, size |-> Len(v.s) + 1, str |-> v.s]

\* envw::is_not_nil
is_not_nil(nv, v) == IF non_local_exit_check(nv) THEN FALSE ELSE v # HSym("nil")

\* envw::extract_float
extract_float(nv, v) ==
  IF non_local_exit_check(nv) THEN [env |-> nv, r |-> 0]
  ELSE IF v.k # "float" THEN [env |-> WrongTypeArgument, r |-> 0]
  ELSE [env |-> nv, r |-> v.n]

\* user_ptr<U>::fin as a function pointer: one function per instantiation
user_ptr_fin(U) == "user_ptr<" \o U \o ">::fin"

\* envw::get_user_finalizer
get_user_finalizer(nv, v) ==
  IF non_local_exit_check(nv) THEN [env |-> nv, r |-> ""]
  ELSE IF v.k # "uptr" THEN [env |-> WrongTypeArgument, r |-> ""]
  ELSE [env |-> nv, r |-> v.fin]

\* envw::get_user_ptr
get_user_ptr(nv, v) ==
  IF non_local_exit_check(nv) THEN [env |-> nv, r |-> Null]
  ELSE IF v.k # "uptr" THEN [env |-> WrongTypeArgument, r |-> Null]
  ELSE [env |-> nv, r |-> v.n]

\* funcall(intern("car"), {data}) on the data of a signal
funcall_car(nv, data) ==
  IF non_local_exit_check(nv) THEN [env |-> nv, r |-> NoVal]
  ELSE IF data.k = "list" THEN [env |-> nv, r |-> Str(data.s)]
  ELSE [env |-> WrongTypeArgument, r |-> NoVal]

\* reinterpret_cast<std::exception_ptr *>(get_user_ptr(data)): the boxed
\* exception, NoExc for a null pointer
get_exception_ptr(nv, data) ==
  IF non_local_exit_check(nv) THEN [env |-> nv, r |-> NoExc]
  ELSE IF data.k # "uptr" THEN [env |-> WrongTypeArgument, r |-> NoExc]
  ELSE [env |-> nv, r |-> [type |-> data.x, symbol |-> NoVal, data |-> NoVal, what |-> data.s]]

\* a statement that may throw, then the rest of the function: the exception
\* of the statement leaves the function, otherwise `rest' is its outcome
AndThen(stmt, rest) == IF stmt.threw THEN stmt ELSE rest

\* std::rethrow_exception(*eptr) when the user-ptr holds an exception, and
\* `throw signal(symbol, data);' otherwise
rethrow_boxed(symbol, data, eptr) ==
  IF non_local_exit_check(eptr.env)
  THEN Throws(non_local_exit_clear(eptr.env), signal(symbol, data))
  ELSE IF eptr.r # NoExc THEN Throws(eptr.env, eptr.r)
  ELSE Throws(eptr.env, signal(symbol, data))

\* the end of rethrow_non_local_exit<true> for a signal, from
\* `if (eq(symbol, intern("cppemacs--exception")))' on; nv is the exit state
\* after non_local_exit_clear
rethrow_signal_unboxed(nv, symbol, data) ==
  IF symbol = Sym("cppemacs--exception")
  THEN rethrow_boxed(symbol, data, get_exception_ptr(nv, data))
  ELSE Throws(nv, signal(symbol, data))

\* the end of the string decode of core.hpp, given the answer r of the fill
string_fill_env(r) ==
  IF r.res THEN Returns(r.env, NStr(r.str)) ELSE Returns(r.env, NStr(""))

\* a decode that sizes the buffer without the terminator slot
string_query_env_short(v, f, q) ==
  IF q.res
  THEN string_fill_env(copy_string_contents(q.env, v, TRUE, q.size - 1, f.fill, f.pending))
  ELSE Returns(q.env, NStr(""))

\* std::string ret(len - 1, '\0'); copy_string_contents(val, &ret[0], len):
\* ret has len - 1 bytes and the host fills len, the terminator included
string_query_env(v, f, q) ==
  IF q.res
  THEN string_fill_env(copy_string_contents(q.env, v, TRUE, q.size, f.fill, f.pending))
  ELSE Returns(q.env, NStr(""))

\* from_emacs(expected_type_t<std::string>, emacs_env *, value) noexcept of
\* core.hpp; f says how the host answers the length query and the fill
from_emacs_string_env(nv, v, f) ==
  string_query_env(v, f, copy_string_contents(nv, v, FALSE, 0, f.len, f.pending))

\* an `error' block that drops the decoded message
rethrow_error_message_untexted(symbol, data, msg_string) ==
  IF non_local_exit_check(msg_string.env)
  THEN rethrow_signal_unboxed(non_local_exit_clear(msg_string.env), symbol, data)
  ELSE Throws(msg_string.env, runtime_error(""))

\* the end of the `error' block of rethrow_non_local_exit<true>, given the
\* decoded message
rethrow_error_message(symbol, data, msg_string) ==
  IF non_local_exit_check(msg_string.env)
  THEN rethrow_signal_unboxed(non_local_exit_clear(msg_string.env), symbol, data)
  ELSE Throws(msg_string.env, runtime_error(msg_string.ret.s))

\* std::string msg_string = from_emacs(expected_type_t<std::string>{}, *this, msg);
\* the call is bound where rethrow_non_local_exit is defined, where only the
\* emacs_env * overload of core.hpp is declared
rethrow_error(dflt, symbol, data, msg) ==
  rethrow_error_message(symbol, data, from_emacs_string_env(msg.env, msg.r, NoFault))

\* a rethrow that leaves the exit pending
rethrow_non_local_exit_keeping(unbox, dflt, nv) ==
  IF ~non_local_exit_check(nv) THEN Returns(nv, Void)
  ELSE IF nv.kind = "signal" THEN Throws(nv, signal(nv.symbol, nv.data))
  ELSE Throws(nv, thrown(nv.symbol, nv.data))

\* envw::rethrow_non_local_exit<Unbox>; dflt is
\* CPPEMACS_ENABLE_EXCEPTION_BOXING, the Unbox of the calls that name none
rethrow_non_local_exit(unbox, dflt, nv) ==
  IF ~non_local_exit_check(nv) THEN Returns(nv, Void)
  ELSE IF nv.kind = "signal"
  THEN IF unbox
       THEN IF nv.symbol = Sym("error")
            THEN rethrow_error(dflt, nv.symbol, nv.data,
                               funcall_car(non_local_exit_clear(nv), nv.data))
            ELSE rethrow_signal_unboxed(non_local_exit_clear(nv), nv.symbol, nv.data)
       ELSE Throws(non_local_exit_clear(nv), signal(nv.symbol, nv.data))
  ELSE Throws(non_local_exit_clear(nv), thrown(nv.symbol, nv.data))

\* a check that clears the exit it reports
maybe_non_local_exit_clearing(unbox, dflt, nv) ==
  IF non_local_exit_check(nv)
  THEN IF unbox THEN rethrow_non_local_exit(unbox, dflt, nv)
       ELSE Throws(non_local_exit_clear(nv), non_local_exit)
  ELSE Returns(nv, Void)

\* envw::maybe_non_local_exit<Unbox>
maybe_non_local_exit(unbox, dflt, nv) ==
  IF non_local_exit_check(nv)
  THEN IF unbox THEN rethrow_non_local_exit(unbox, dflt, nv)
       ELSE Throws(nv, non_local_exit)
  ELSE Returns(nv, Void)

\* from_emacs(expected_type_t<bool>, envw, value)
from_emacs_bool(nv, v) == Returns(nv, NBool(is_not_nil(nv, v)))

\* static_cast<t>(n): the value of n modulo 2^width_of(t)
static_cast(t, n) ==
  IF t \in SignedTypes
  THEN ((n + Pow2(digits(t))) % Pow2(digits(t) + 1)) - Pow2(digits(t))
  ELSE n % Pow2(digits(t))

\* a decode that narrows without the range check
narrow_unchecked(t, dflt, int_val) ==
  AndThen(maybe_non_local_exit(dflt, dflt, int_val.env),
      Returns(int_val.env, NInt(static_cast(t, int_val.r))))

\* nv.maybe_non_local_exit(); the range check; return static_cast<Int>(int_val);
narrow(t, dflt, int_val) ==
  AndThen(maybe_non_local_exit(dflt, dflt, int_val.env),
      IF \/ int_val.r < static_cast("intmax_t", numeric_limits_min(t))
         \/ int_val.r > static_cast("intmax_t", numeric_limits_max(t))
      THEN Throws(int_val.env, runtime_error("Integer out of range"))
      ELSE Returns(int_val.env, NInt(static_cast(t, int_val.r))))

\* from_emacs(expected_type_t<Int>, envw, value), Int no wider than intmax_t
from_emacs_Int(t, dflt, nv, v) == narrow(t, dflt, extract_integer(nv, v))

\* a decode that takes the magnitude whatever the sign
from_limbs_unsigned(dflt, x) ==
  IF ~x.res
  THEN AndThen(maybe_non_local_exit(dflt, dflt, x.env),
           Throws(x.env, runtime_error("Integer out of range")))
  ELSE Returns(x.env, NInt(static_cast("uintmax_t", x.magnitude)))

\* from_emacs(expected_type_t<uintmax_t>, ...) after extract_big_integer
\* answered x, with CPPEMACS_UINTMAX_ONE_LIMB; ndigits is
\* numeric_limits<uintmax_t>::digits % numeric_limits<emacs_limb_t>::digits
from_limbs(dflt, x) ==
  IF ~x.res \/ x.sign < 0
  THEN AndThen(maybe_non_local_exit(dflt, dflt, x.env),
           Throws(x.env, runtime_error("Integer out of range")))
  ELSE IF x.magnitude >= Pow2(digits("uintmax_t") % limb_digits)
  THEN Throws(x.env, runtime_error("Integer out of range"))
  ELSE Returns(x.env, NInt(static_cast("uintmax_t", x.magnitude)))

\* from_emacs(expected_type_t<uintmax_t>, envw, value); f says how the host
\* answers extract_big_integer
from_emacs_uintmax_t(dflt, nv, v, f) ==
  from_limbs(dflt, extract_big_integer(nv, v, uintmax_limb_count, f.len, f.pending))

\* return static_cast<Float>(nv.extract_float(val));
float_cast(d) == Returns(d.env, NFloat(d.r))

\* from_emacs(expected_type_t<Float>, envw, value)
from_emacs_Float(nv, v) == float_cast(extract_float(nv, v))

\* a decode that does not compare the finalizer
check_fin_untyped(U, dflt, v, fn) ==
  AndThen(maybe_non_local_exit(dflt, dflt, fn.env),
      Returns(fn.env, NPtr(U, get_user_ptr(fn.env, v).r)))

\* nv.maybe_non_local_exit(); the comparison of fin with user_ptr<U>::fin;
\* return user_ptr(reinterpret_cast<U*>(nv.get_user_ptr(val)));
check_fin(U, dflt, v, fn) ==
  AndThen(maybe_non_local_exit(dflt, dflt, fn.env),
      IF fn.r # user_ptr_fin(U)
      THEN Throws(fn.env, runtime_error("User ptr type mismatch"))
      ELSE Returns(fn.env, NPtr(U, get_user_ptr(fn.env, v).r)))

\* from_emacs(expected_type_t<user_ptr<U>>, envw, value)
from_emacs_user_ptr(U, dflt, nv, v) == check_fin(U, dflt, v, get_user_finalizer(nv, v))

\* the template arguments of the user pointers, and user_ptr<U> as a type name
\* (the last one is user_ptr<A, Deleter> with a deleter of its own)
Pointees == {"A", "B", "Base", "A, Deleter"}
user_ptr(U) == "user_ptr<" \o U \o ">"
UserPtrTypes == {user_ptr(U) : U \in Pointees}
pointee(t) == CHOOSE U \in Pointees : user_ptr(U) = t

Types == IntegralTypes \cup {"bool", "std::string", "double"} \cup UserPtrTypes

\* a value that was never written: `value ret;'
Indeterminate == {NoHostValue, HInt(0), HUserPtr(user_ptr_fin("A"), 1)}

\* a conversion that does not look at the outcome of make_user_ptr
to_emacs_user_ptr_unchecked(U, nv, a, ok) ==
  IF non_local_exit_check(nv)
  THEN {[env |-> nv, v |-> g, deleted |-> TRUE] : g \in Indeterminate}
  ELSE IF ok
  THEN {[env |-> nv, v |-> HUserPtr(user_ptr_fin(U), a.n), deleted |-> FALSE]}
  ELSE {[env |-> HostFailure, v |-> NoHostValue, deleted |-> FALSE]}

\* to_emacs(expected_type_t<user_ptr<U>>, envw, const user_ptr &): the value
\* returned and whether fin(raw) ran; ok is the outcome of make_user_ptr
to_emacs_user_ptr(U, nv, a, ok) ==
  IF non_local_exit_check(nv)
  THEN {[env |-> nv, v |-> g, deleted |-> TRUE] : g \in Indeterminate}
  ELSE IF ok
  THEN {[env |-> nv, v |-> HUserPtr(user_ptr_fin(U), a.n), deleted |-> FALSE]}
  ELSE {[env |-> HostFailure, v |-> NoHostValue, deleted |-> TRUE]}

\* to_emacs(expected_type_t<uintmax_t>, envw, uintmax_t)
to_emacs_uintmax_t(n) ==
  IF n > static_cast("uintmax_t", numeric_limits_max("intmax_t"))
  THEN make_big_integer(1, n)
  ELSE make_integer(static_cast("intmax_t", n))

\* a conversion that resets the exit state before its host call
to_emacs_clearing(arg, nv, a, ok) ==
  IF arg \in UserPtrTypes THEN to_emacs_user_ptr(pointee(arg), nv, a, ok)
  ELSE {[env |-> ExitReturn, deleted |-> FALSE,
         v |-> CASE arg = "std::string" -> HStr(a.s)
                 [] arg = "bool" -> HSym(IF a.n = 1 THEN "t" ELSE "nil")
                 [] arg = "uintmax_t" -> to_emacs_uintmax_t(a.n)
                 [] arg = "double" -> HFloat(a.n)
                 [] is_integral_smaller_than_intmax(arg) ->
                      make_integer(static_cast("intmax_t", a.n))]}

\* to_emacs(expected_type_t<arg>, envw, a) as envw::inject selects it; a
\* host call made while an exit is pending returns no value
to_emacs(arg, nv, a, ok) ==
  IF arg \in UserPtrTypes THEN to_emacs_user_ptr(pointee(arg), nv, a, ok)
  ELSE IF non_local_exit_check(nv) THEN {[env |-> nv, v |-> NoHostValue, deleted |-> FALSE]}
  ELSE {[env |-> nv, deleted |-> FALSE,
         v |-> CASE arg = "std::string" -> HStr(a.s)
                 [] arg = "bool" -> HSym(IF a.n = 1 THEN "t" ELSE "nil")
                 [] arg = "uintmax_t" -> to_emacs_uintmax_t(a.n)
                 [] arg = "double" -> HFloat(a.n)
                 [] is_integral_smaller_than_intmax(arg) ->
                      make_integer(static_cast("intmax_t", a.n))]}

\* from_emacs(expected_type_t<t>{}, raw, val) as envw::extract selects it:
\* raw is an emacs_env *, so for std::string the overload of core.hpp that
\* takes emacs_env * is the better match
from_emacs(t, dflt, nv, v, f) ==
  CASE t = "std::string" -> from_emacs_string_env(nv, v, f)
    [] t = "bool" -> from_emacs_bool(nv, v)
    [] t = "uintmax_t" -> from_emacs_uintmax_t(dflt, nv, v, f)
    [] t = "double" -> from_emacs_Float(nv, v)
    [] t \in UserPtrTypes -> from_emacs_user_ptr(pointee(t), dflt, nv, v)
    [] is_integral_smaller_than_intmax(t) -> from_emacs_Int(t, dflt, nv, v)

\* the host function that the from_emacs overload of t calls in its first
\* statement
decode_function(t) ==
  CASE t = "std::string" -> "copy_string_contents"
    [] t = "bool" -> "is_not_nil"
    [] t = "uintmax_t" -> "extract_big_integer"
    [] t = "double" -> "extract_float"
    [] t \in UserPtrTypes -> "get_user_finalizer"
    [] is_integral_smaller_than_intmax(t) -> "extract_integer"

\* extract<t> passes its environment to from_emacs, whose first statement
\* is the host call: the call and whether it met a pending exit
first_host_call(t, nv) == [fn |-> decode_function(t), pending |-> non_local_exit_check(nv)]

\* an extract that returns what the conversion returned without a check
extract_return_unchecked(dflt, r) == r

\* auto ret = from_emacs(...); maybe_non_local_exit(); return ret;
extract_return(dflt, r) ==
  IF r.threw THEN r
  ELSE AndThen(maybe_non_local_exit(dflt, dflt, r.env), Returns(r.env, r.ret))

\* envw::extract<t>(val)
extract(t, dflt, nv, v, f) == extract_return(dflt, from_emacs(t, dflt, nv, v, f))

\* the native values of a type
NativeValues(arg) ==
  CASE arg \in IntegralTypes ->
         {NInt(n) : n \in numeric_limits_min(arg)..numeric_limits_max(arg)}
    [] arg = "bool" -> {NBool(TRUE), NBool(FALSE)}
    [] arg = "std::string" -> {NStr(""), NStr("a"), NStr("abcd")}
    [] arg = "double" -> {NFloat(0), NFloat(1)}
    [] arg \in UserPtrTypes -> {NPtr(pointee(arg), ptr) : ptr \in {1, 2}}

\* the host integers of the exploration: past both ends of intmax_t and of
\* uintmax_t
HostInts ==
  (numeric_limits_min("intmax_t") - 2)..(numeric_limits_max("uintmax_t") + 2)
    \cup {-Pow2(digits("uintmax_t")), Pow2(digits("uintmax_t") + 1)}

\* the host values handed to native code
HostValues ==
  {HInt(n) : n \in HostInts}
    \cup {HStr(""), HStr("ab"), HSym("nil"), HSym("t"), HFloat(1)}
    \cup {HUserPtr(user_ptr_fin(U), 1) : U \in Pointees}

\* the exits a host call can leave pending
ConvExits ==
  PendingExits \cup
    {ExitSignal(Sym("cppemacs--exception"), UserPtrExn("other", "")),
     ExitSignal(Sym("cppemacs--exception"), Sym("thrown-value"))}

\* how the host answers the boolean calls of a decode; only the decodes
\* that make such calls have a choice
Faults(t) ==
  IF t = "std::string"
  THEN [len : BOOLEAN, fill : BOOLEAN, pending : BOOLEAN]
  ELSE IF t = "uintmax_t" THEN [len : BOOLEAN, fill : {TRUE}, pending : BOOLEAN]
  ELSE {NoFault}

InitConv ==
  /\ env = ExitReturn
  /\ pc = "idle"
  /\ Box \in BOOLEAN
  /\ exc = NoExc
  /\ envAtCatch = ExitReturn
  /\ MakeIdle
  /\ SpreadIdle
  /\ ConvIdle
  /\ ExtIdle

\* cell val = envp->*value: native code converts a value to the host
Inject ==
  /\ pc = "idle"
  /\ \E arg \in Types : \E a \in NativeValues(arg) : \E ok \in BOOLEAN :
       \E o \in to_emacs(arg, env, a, ok) :
         /\ Arg' = arg
         /\ src' = a
         /\ val' = o.v
         /\ env' = o.env
  /\ pc' = "have"
  /\ UNCHANGED <<catchVars, makeVars, spreadVars, extVars, Unbox, T, ret, fault, issued>>

\* the host hands a value of its own to native code
HostProvides ==
  /\ pc = "idle"
  /\ ~non_local_exit_check(env)
  /\ val' \in HostValues
  /\ pc' = "have"
  /\ UNCHANGED <<env, catchVars, makeVars, spreadVars, extVars, Unbox, Arg, T, src, ret, fault, issued>>

\* native code calls a host function that exits non-locally
FuncallExits ==
  /\ pc \in {"idle", "have"}
  /\ ~non_local_exit_check(env)
  /\ env' \in IF pc = "idle" THEN ConvExits
             ELSE {HostFailure, ExitThrow(Sym("hello"), Sym("thrown-value"))}
  /\ UNCHANGED <<pc, catchVars, makeVars, spreadVars, convVars, extVars>>

\* val.extract<t>()
Extract ==
  /\ pc = "have"
  /\ \E t \in Types : \E f \in Faults(t) :
       \E r \in {extract(t, Box, env, val, f)} :
         /\ T' = t
         /\ fault' = f
         /\ issued' = first_host_call(t, env)
         /\ env' = r.env
         /\ exc' = r.exc
         /\ ret' = r.ret
         /\ pc' = IF r.threw THEN "extract:threw" ELSE "extract:returned"
  /\ envAtCatch' = env
  /\ Unbox' = Box
  /\ UNCHANGED <<Box, makeVars, spreadVars, extVars, Arg, val, src>>

\* nv.rethrow_non_local_exit<u>()
RethrowNonLocalExit ==
  /\ pc = "idle"
  /\ \E u \in BOOLEAN :
       \E r \in {rethrow_non_local_exit(u, Box, env)} :
         /\ Unbox' = u
         /\ env' = r.env
         /\ exc' = r.exc
         /\ pc' = IF r.threw THEN "rethrow:threw" ELSE "rethrow:returned"
  /\ envAtCatch' = env
  /\ UNCHANGED <<Box, makeVars, spreadVars, extVars, Arg, T, val, src, ret, fault, issued>>

\* nv.maybe_non_local_exit<u>()
MaybeNonLocalExit ==
  /\ pc = "idle"
  /\ \E u \in BOOLEAN :
       \E r \in {maybe_non_local_exit(u, Box, env)} :
         /\ Unbox' = u
         /\ env' = r.env
         /\ exc' = r.exc
         /\ pc' = IF r.threw THEN "maybe:threw" ELSE "maybe:returned"
  /\ envAtCatch' = env
  /\ UNCHANGED <<Box, makeVars, spreadVars, extVars, Arg, T, val, src, ret, fault, issued>>

\* native code goes on after the call, or catches what it threw
NativeResumes ==
  /\ pc \in {"extract:threw", "extract:returned", "rethrow:threw",
             "rethrow:returned", "maybe:threw", "maybe:returned"}
  /\ pc' = "idle"
  /\ exc' = NoExc
  /\ envAtCatch' = ExitReturn
  /\ Unbox' = FALSE /\ Arg' = "none" /\ T' = "none"
  /\ val' = NoHostValue /\ src' = NoNative /\ ret' = NoNative /\ fault' = NoFault
  /\ issued' = NoCall
  /\ UNCHANGED <<env, Box, makeVars, spreadVars, extVars>>

\* nv.non_local_exit_clear()
NonLocalExitClear ==
  /\ pc = "idle"
  /\ non_local_exit_check(env)
  /\ env' = non_local_exit_clear(env)
  /\ UNCHANGED <<pc, catchVars, makeVars, spreadVars, convVars, extVars>>

NextConv ==
  \/ Inject
  \/ HostProvides
  \/ FuncallExits
  \/ Extract
  \/ RethrowNonLocalExit
  \/ MaybeNonLocalExit
  \/ NativeResumes
  \/ NonLocalExitClear

SpecConv == InitConv /\ [][NextConv]_vars

----------------------------------------------------------------------------
(* envw::is_compatible<MajorVersion> and check_compatible<MajorVersion>.   *)
(* Sizes are counted in members of emacs_env, each one pointer wide.       *)

\* how far below emacs_env_25 and above emacs_env_29 the sizes explored go
SizeSlack == 2

MajorVersions == 25..29

\* the members emacs_env gained in version N; for 25, size, private_members
\* and the functions of the first module API
new_members(N) ==
  CASE N = 25 -> 30
    [] N = 26 -> 1
    [] N = 27 -> 5
    [] N = 28 -> 5
    [] N = 29 -> 0

\* sizeof(emacs_env_N)
RECURSIVE sizeof_emacs_env(_)
sizeof_emacs_env(N) ==
  IF N = 25 THEN new_members(25) ELSE sizeof_emacs_env(N - 1) + new_members(N)

\* the structure whose size the specialization is_compatible<N> names
specialization_struct(N) == IF N = 25 THEN 26 ELSE N

\* envw::is_compatible<N>(): size() >= sizeof(emacs_env_NN)
is_compatible(N, size) == size >= sizeof_emacs_env(specialization_struct(N))

DigitChars == <<"0", "1", "2", "3", "4", "5", "6", "7", "8", "9">>

\* major_error_message<N>::value
major_error_message(N) ==
  "Emacs major version " \o DigitChars[((N \div 10) % 10) + 1]
    \o DigitChars[(N % 10) + 1] \o " required"

\* envw::version_check_error<N>()
version_check_error(N) == runtime_error(major_error_message(N))

\* envw::check_compatible<N>(): the exception it throws, NoExc if it returns
check_compatible(N, size) ==
  IF ~is_compatible(N, size) THEN version_check_error(N) ELSE NoExc

EnvSizes ==
  (sizeof_emacs_env(25) - SizeSlack)..(sizeof_emacs_env(29) + SizeSlack)

InitVersion ==
  /\ env = ExitReturn
  /\ pc = "idle"
  /\ Box = FALSE
  /\ exc = NoExc
  /\ envAtCatch = ExitReturn
  /\ MakeIdle
  /\ SpreadIdle
  /\ ConvIdle
  /\ envSize \in EnvSizes
  /\ MajorVersion = 0
  /\ compatible = FALSE
  /\ ScopeIdle
  /\ ClosureIdle
  /\ OwnIdle

\* env.is_compatible<N>()
IsCompatible ==
  /\ pc = "idle"
  /\ \E N \in MajorVersions :
       /\ MajorVersion' = N
       /\ compatible' = is_compatible(N, envSize)
  /\ pc' = "is_compatible:returned"
  /\ UNCHANGED <<env, catchVars, makeVars, spreadVars, convVars, scopeVars, closureVars, ownVars, envSize>>

\* env.check_compatible<N>()
CheckCompatible ==
  /\ pc = "idle"
  /\ \E N \in MajorVersions :
       /\ MajorVersion' = N
       /\ compatible' = is_compatible(N, envSize)
       /\ exc' = check_compatible(N, envSize)
       /\ pc' = IF check_compatible(N, envSize) # NoExc
                THEN "check_compatible:threw" ELSE "check_compatible:returned"
  /\ UNCHANGED <<env, Box, envAtCatch, makeVars, spreadVars, convVars, scopeVars, closureVars, ownVars, envSize>>

\* the caller goes on, or catches the exception
VersionResumes ==
  /\ pc \in {"is_compatible:returned", "check_compatible:threw", "check_compatible:returned"}
  /\ pc' = "idle"
  /\ exc' = NoExc
  /\ MajorVersion' = 0
  /\ compatible' = FALSE
  /\ UNCHANGED <<env, Box, envAtCatch, makeVars, spreadVars, convVars, scopeVars, closureVars, ownVars, envSize>>

NextVersion ==
  \/ IsCompatible
  \/ CheckCompatible
  \/ VersionResumes

SpecVersion == InitVersion /\ [][NextVersion]_vars

----------------------------------------------------------------------------
(* envw::run_scoped: f runs inside a host call of a function made for it,  *)
(* under the nested environment the host passes to that function.          *)

\* what the callable may throw, and the exits its host calls may leave
ScopeExceptions ==
  {non_local_exit, other_exception, runtime_error("C++ runtime error"),
   signal(Sym("hello"), Sym("thrown-value"))}
NestedExits == {HostFailure, ExitThrow(Sym("hello"), Sym("thrown-value"))}

\* the host returns from a module function: an exit pending on the
\* function's environment becomes the exit of the funcall that called it
funcall_returns(nv, inner) == IF non_local_exit_check(inner) THEN inner ELSE nv

\* a run_scoped that forgets the captured exception
after_funcall_dropping(noexc, dflt, nv, captured) ==
  IF noexc THEN Returns(nv, Void)
  ELSE AndThen(maybe_non_local_exit(dflt, dflt, nv), Returns(nv, Void))

\* if (!is_noexcept) { if (fdata.exn) std::rethrow_exception(...);
\*                     maybe_non_local_exit(); }
after_funcall(noexc, dflt, nv, captured) ==
  IF noexc THEN Returns(nv, Void)
  ELSE IF captured # NoExc THEN Throws(nv, captured)
  ELSE AndThen(maybe_non_local_exit(dflt, dflt, nv), Returns(nv, Void))

InitScope ==
  /\ env = ExitReturn
  /\ pc = "idle"
  /\ Box \in BOOLEAN
  /\ exc = NoExc
  /\ envAtCatch = ExitReturn
  /\ MakeIdle
  /\ SpreadIdle
  /\ ConvIdle
  /\ VerIdle
  /\ ScopeIdle
  /\ ClosureIdle
  /\ OwnIdle

\* the caller's host call exits non-locally before run_scoped
ScopeHostCallExits ==
  /\ pc = "idle"
  /\ ~non_local_exit_check(env)
  /\ env' \in PendingExits
  /\ UNCHANGED <<pc, catchVars, makeVars, spreadVars, convVars, extVars>>

\* nv.run_scoped(f): if (non_local_exit_check()) return;
RunScoped ==
  /\ pc = "idle"
  /\ IsNoexcept' \in BOOLEAN
  /\ pc' = IF non_local_exit_check(env) THEN "scope:returned" ELSE "scope:make_function"
  /\ envAtCatch' = env
  /\ UNCHANGED <<env, Box, exc, makeVars, spreadVars, convVars, verVars, closureVars, ownVars, nested, exn, fexc>>

\* value func = make_function(1, 1, [](...) noexcept {...}, nullptr, &fdata);
ScopeMakeFunction ==
  /\ pc = "scope:make_function"
  /\ \E ok \in BOOLEAN : env' = host_call(env, ok)
  /\ pc' = "scope:funcall"
  /\ UNCHANGED <<catchVars, makeVars, spreadVars, convVars, extVars>>

\* funcall(func, 1, &func): the host calls the function with a nested
\* environment, unless an exit is pending
ScopeFuncall ==
  /\ pc = "scope:funcall"
  /\ pc' = IF non_local_exit_check(env) THEN "scope:after_funcall" ELSE "scope:f"
  /\ nested' = ExitReturn
  /\ UNCHANGED <<env, catchVars, makeVars, spreadVars, convVars, verVars, closureVars, ownVars, IsNoexcept, exn, fexc>>

\* f calls a host function on the nested environment that exits non-locally
NestedHostCallExits ==
  /\ pc = "scope:f"
  /\ ~non_local_exit_check(nested)
  /\ nested' \in NestedExits
  /\ UNCHANGED <<env, pc, catchVars, makeVars, spreadVars, convVars, verVars, closureVars, ownVars, IsNoexcept, exn, fexc>>

\* f throws: catch (...) { fdata.exn = std::current_exception(); }
ScopeBodyThrows ==
  /\ pc = "scope:f"
  /\ ~IsNoexcept
  /\ \E e \in ScopeExceptions : fexc' = e /\ exn' = e
  /\ pc' = "scope:lambda_return"
  /\ UNCHANGED <<env, catchVars, makeVars, spreadVars, convVars, verVars, closureVars, ownVars, IsNoexcept, nested>>

\* f returns
ScopeBodyReturns ==
  /\ pc = "scope:f"
  /\ pc' = "scope:lambda_return"
  /\ UNCHANGED <<env, catchVars, makeVars, spreadVars, convVars, extVars>>

\* return args[0]; the host takes over and funcall returns to run_scoped
ScopeLambdaReturns ==
  /\ pc = "scope:lambda_return"
  /\ env' = funcall_returns(env, nested)
  /\ pc' = "scope:after_funcall"
  /\ UNCHANGED <<catchVars, makeVars, spreadVars, convVars, extVars>>

\* the statements of run_scoped after funcall
ScopeAfterFuncall ==
  /\ pc = "scope:after_funcall"
  /\ \E r \in {after_funcall(IsNoexcept, Box, env, exn)} :
       /\ env' = r.env
       /\ exc' = r.exc
       /\ pc' = IF r.threw THEN "scope:threw" ELSE "scope:returned"
  /\ UNCHANGED <<Box, envAtCatch, makeVars, spreadVars, convVars, extVars>>

\* the caller of run_scoped goes on, or catches what it threw
ScopeResumes ==
  /\ pc \in {"scope:threw", "scope:returned"}
  /\ pc' = "idle"
  /\ exc' = NoExc
  /\ envAtCatch' = ExitReturn
  /\ IsNoexcept' = FALSE /\ nested' = ExitReturn /\ exn' = NoExc /\ fexc' = NoExc
  /\ UNCHANGED <<env, Box, makeVars, spreadVars, convVars, verVars, closureVars, ownVars>>

\* the caller clears the pending exit
ScopeClears ==
  /\ pc = "idle"
  /\ non_local_exit_check(env)
  /\ env' = non_local_exit_clear(env)
  /\ UNCHANGED <<pc, catchVars, makeVars, spreadVars, convVars, extVars>>

NextScope ==
  \/ ScopeHostCallExits
  \/ RunScoped
  \/ ScopeMakeFunction
  \/ ScopeFuncall
  \/ NestedHostCallExits
  \/ ScopeBodyThrows
  \/ ScopeBodyReturns
  \/ ScopeLambdaReturns
  \/ ScopeAfterFuncall
  \/ ScopeResumes
  \/ ScopeClears

SpecScope == InitScope /\ [][NextScope]_vars

----------------------------------------------------------------------------
(* Calls of a converted closure: module_function<F>::invoke hands the data *)
(* word of the call to module_function_repr<F>::extract.  F is a callable  *)
(* that returns the state it holds and then stores its argument.           *)

\* bounds of the exploration
MaxInvocations == 3
MaxArgValue == 4

\* module_function_repr<F>::make: the data word given to make_function, for
\* an F holding the state f
data_word(inline, f) == IF inline THEN [ptr |-> FALSE, bits |-> f] ELSE [ptr |-> TRUE, bits |-> 0]

\* module_function_repr<F>::extract(data): the state of the F it refers to;
\* data is the parameter of invoke, holding the word the host passed
module_function_repr_extract(inline, data, h) == IF inline THEN data.bits ELSE h

\* module_function<F>::invoke(nv, nargs, args, data) with the argument a:
\* what F returns, and where its assignment to its own state lands: in the
\* heap F (boxed), or in the parameter `data' of this call (inline), which
\* is gone when the call returns
module_function_invoke(inline, w, h, a) ==
  [ret |-> module_function_repr_extract(inline, w, h),
   heap |-> IF inline THEN h ELSE a,
   data |-> IF inline THEN [ptr |-> FALSE, bits |-> a] ELSE w]

InitClosure ==
  /\ env = ExitReturn
  /\ pc = "idle"
  /\ Box = FALSE
  /\ exc = NoExc
  /\ envAtCatch = ExitReturn
  /\ MakeIdle
  /\ SpreadIdle
  /\ ConvIdle
  /\ ExtIdle

\* cell f = env->*std::move(func), for a callable whose state is all zero
ConvertClosure ==
  /\ pc = "idle"
  /\ \E inline \in BOOLEAN :
       /\ Inline' = inline
       /\ word' = data_word(inline, 0)
  /\ heapF' = 0
  /\ got' = 0
  /\ passed' = <<>>
  /\ pc' = "closure:host"
  /\ UNCHANGED <<env, catchVars, makeVars, spreadVars, convVars, verVars, scopeVars, ownVars>>

\* the host calls the function: it passes the data word it keeps
InvokeClosure ==
  /\ pc = "closure:host"
  /\ Len(passed) < MaxInvocations
  /\ \E a \in 1..MaxArgValue :
       \E r \in {module_function_invoke(Inline, word, heapF, a)} :
         /\ got' = r.ret
         /\ heapF' = r.heap
         /\ passed' = Append(passed, a)
  /\ UNCHANGED <<env, pc, catchVars, makeVars, spreadVars, convVars, verVars, scopeVars, ownVars, Inline, word>>

\* the function goes out of use
DropClosure ==
  /\ pc = "closure:host"
  /\ pc' = "idle"
  /\ Inline' = FALSE /\ word' = NoWord /\ heapF' = 0 /\ got' = 0 /\ passed' = <<>>
  /\ UNCHANGED <<env, catchVars, makeVars, spreadVars, convVars, verVars, scopeVars, ownVars>>

NextInvoke ==
  \/ ConvertClosure
  \/ InvokeClosure
  \/ DropClosure

SpecClosure == InitClosure /\ [][NextInvoke]_vars

----------------------------------------------------------------------------
(* Ownership of the objects handed to the host as user pointers: the       *)
(* pointee of a user_ptr given to to_emacs, and the std::exception_ptr     *)
(* that run_catching<true> allocates for an exception it boxes.  owner is  *)
(* who has to deallocate the object, frees counts its deallocations.       *)

\* the host call of the Box handler that fails, if any
BoxFaults == {"none", "define-error", "make_user_ptr"}

\* if (!is_init) { funcall(intern("define-error"), {...}); is_init = true; }
define_error(nv, init, fail) ==
  IF ~init /\ fail = "define-error" THEN host_call(nv, FALSE) ELSE nv

\* value uptr = make_user_ptr(fin, uptr_ptr): the exit state, and whether
\* the host took the pointer
make_exception_user_ptr(nv, fail) ==
  IF non_local_exit_check(nv) THEN [env |-> nv, made |-> FALSE]
  ELSE IF fail = "make_user_ptr" THEN [env |-> host_call(nv, FALSE), made |-> FALSE]
  ELSE [env |-> nv, made |-> TRUE]

\* funcall(intern("signal"), {tag, uptr}) after make_user_ptr: the
\* allocation has no owner in native code (no delete in the handler)
signal_boxed(e, uptr) ==
  [env |-> funcall_signal(uptr.env, Sym("cppemacs--exception"), UserPtrExn(e.type, e.what)),
   owner |-> IF uptr.made THEN "host" ELSE "leaked"]

\* catch (...) with Box: new std::exception_ptr(std::current_exception()),
\* define-error on the first use, make_user_ptr, signal
box_exception(nv, e, init, fail) ==
  signal_boxed(e, make_exception_user_ptr(define_error(nv, init, fail), fail))

\* whether run_catching_handle_current<true> reaches its catch (...) for e
ReachesCatchAll(nv, e) ==
  /\ ~non_local_exit_check(nv)
  /\ e.type \notin {"signal", "thrown", "non_local_exit"}
  /\ ~IsStdException(e)

InitOwn ==
  /\ env = ExitReturn
  /\ pc = "idle"
  /\ Box = TRUE
  /\ exc = NoExc
  /\ envAtCatch = ExitReturn
  /\ MakeIdle
  /\ SpreadIdle
  /\ ConvIdle
  /\ ExtIdle

\* native code calls a host function that exits non-locally
OwnHostCallExits ==
  /\ pc = "idle"
  /\ ~non_local_exit_check(env)
  /\ env' \in {HostFailure, ExitThrow(Sym("hello"), Sym("thrown-value"))}
  /\ UNCHANGED <<pc, catchVars, makeVars, spreadVars, convVars, extVars>>

\* nv.non_local_exit_clear()
OwnClears ==
  /\ pc = "idle"
  /\ non_local_exit_check(env)
  /\ env' = non_local_exit_clear(env)
  /\ UNCHANGED <<pc, catchVars, makeVars, spreadVars, convVars, extVars>>

\* nv->*make_user_ptr<A>(...): to_emacs of a user_ptr that native code owns
ToEmacsUserPtr ==
  /\ pc = "idle"
  /\ \E U \in Pointees : \E a \in NativeValues(user_ptr(U)) : \E ok \in BOOLEAN :
       \E o \in to_emacs_user_ptr(U, env, a, ok) :
         /\ Arg' = user_ptr(U)
         /\ src' = a
         /\ val' = o.v
         /\ env' = o.env
         /\ frees' = IF o.deleted THEN 1 ELSE 0
         /\ owner' = IF o.deleted THEN "freed" ELSE "host"
         /\ referenced' = ~o.deleted
  /\ envAtCatch' = env
  /\ pc' = "own:converted"
  /\ UNCHANGED <<Box, exc, makeVars, spreadVars, verVars, scopeVars, closureVars, is_init, boxedX, hostOk, Unbox, T, ret, fault, issued>>

\* the last reference of the host to the user pointer goes away
HostUnreferences ==
  /\ pc \in {"own:converted", "own:rethrown"}
  /\ owner = "host"
  /\ referenced
  /\ referenced' = FALSE
  /\ UNCHANGED <<env, pc, catchVars, makeVars, spreadVars, convVars, verVars, scopeVars, closureVars, owner, frees, is_init, boxedX, hostOk>>

\* the collector finalizes the unreferenced user pointer: fin(ptr)
HostCollects ==
  /\ owner = "host"
  /\ ~referenced
  /\ frees' = frees + 1
  /\ owner' = "freed"
  /\ UNCHANGED <<env, pc, catchVars, makeVars, spreadVars, convVars, verVars, scopeVars, closureVars, referenced, is_init, boxedX, hostOk>>

\* env.run_catching<true>(f): f throws
OwnBodyThrows ==
  /\ pc = "idle"
  /\ exc' \in Exceptions
  /\ envAtCatch' = env
  /\ pc' = "own:caught"
  /\ UNCHANGED <<env, Box, makeVars, spreadVars, convVars, extVars>>

\* run_catching_handle_current<true> for an exception that its
\* catch (...) boxes
BoxCurrentException ==
  /\ pc = "own:caught"
  /\ ReachesCatchAll(env, exc)
  /\ \E fail \in BoxFaults :
       \E r \in {box_exception(env, exc, is_init, fail)} :
         /\ env' = r.env
         /\ owner' = r.owner
         /\ referenced' = (r.owner = "host")
         /\ hostOk' = (r.owner = "host")
  /\ is_init' = TRUE
  /\ boxedX' = exc
  /\ pc' = "own:signalled"
  /\ UNCHANGED <<catchVars, makeVars, spreadVars, convVars, verVars, scopeVars, closureVars, frees>>

\* run_catching_handle_current<true> for the other exceptions, and with an
\* exit pending; an exception leaving the noexcept function calls
\* std::terminate
OwnRunCatchingHandle ==
  /\ pc = "own:caught"
  /\ ~ReachesCatchAll(env, exc)
  /\ \E r \in {run_catching_handle_current(Box, env, exc)} :
       /\ env' = r.env
       /\ pc' = IF r.escaped THEN "terminated" ELSE "own:signalled"
  /\ hostOk' = FALSE
  /\ UNCHANGED <<catchVars, makeVars, spreadVars, convVars, verVars, scopeVars, closureVars, owner, frees, referenced, is_init, boxedX>>

\* envp.rethrow_non_local_exit<true>() after the call
OwnRethrows ==
  /\ pc = "own:signalled"
  /\ \E r \in {rethrow_non_local_exit(TRUE, Box, env)} :
       /\ env' = r.env
       /\ exc' = r.exc
  /\ pc' = "own:rethrown"
  /\ UNCHANGED <<Box, envAtCatch, makeVars, spreadVars, convVars, extVars>>

\* the object is gone (or lost); native code goes on
OwnResumes ==
  /\ pc \in {"own:converted", "own:rethrown"}
  /\ owner # "host"
  /\ pc' = "idle"
  /\ exc' = NoExc
  /\ envAtCatch' = ExitReturn
  /\ owner' = "none" /\ frees' = 0 /\ referenced' = FALSE
  /\ boxedX' = NoExc /\ hostOk' = TRUE
  /\ Arg' = "none" /\ src' = NoNative /\ val' = NoHostValue
  /\ UNCHANGED <<env, Box, makeVars, spreadVars, verVars, scopeVars, closureVars, is_init, Unbox, T, ret, fault, issued>>

NextOwn ==
  \/ OwnHostCallExits
  \/ OwnClears
  \/ ToEmacsUserPtr
  \/ HostUnreferences
  \/ HostCollects
  \/ OwnBodyThrows
  \/ BoxCurrentException
  \/ OwnRunCatchingHandle
  \/ OwnRethrows
  \/ OwnResumes

SpecOwn == InitOwn /\ [][NextOwn]_vars

----------------------------------------------------------------------------
(* Sequences of library operations on one environment.  Each action is one *)
(* whole operation, from its call (pc = "idle") to its end; envAtCatch is  *)
(* the exit state at the call.                                             *)

\* module_function_repr<F>::make, as far as the exit state goes: it returns
\* at once with an exit pending, and otherwise one of its host calls may
\* fail (ok is whether all of them succeed)
module_function_repr_make(nv, ok) ==
  IF non_local_exit_check(nv) THEN nv ELSE host_call(nv, ok)

\* envw::run_scoped(f) for the outer environment: ok is the outcome of
\* make_function, inner the exit state f leaves on the nested environment,
\* e the exception f throws (NoExc if none)
run_scoped(noexc, dflt, nv, ok, inner, e) ==
  IF non_local_exit_check(nv) THEN Returns(nv, Void)
  ELSE IF ~ok THEN after_funcall(noexc, dflt, host_call(nv, ok), NoExc)
  ELSE after_funcall(noexc, dflt, funcall_returns(nv, inner), e)

\* the host values of the decodes of this exploration
OpValues == {HInt(0), HStr("ab"), HSym("t"), HUserPtr(user_ptr_fin("A"), 1)}

\* the pc of an operation that has ended
OpEnded ==
  {"op:clear", "op:rethrow", "op:maybe", "op:extract", "op:inject",
   "op:run_catching", "op:make", "op:run_scoped"}

InitOps ==
  /\ env = ExitReturn
  /\ pc = "idle"
  /\ Box \in BOOLEAN
  /\ exc = NoExc
  /\ envAtCatch = ExitReturn
  /\ MakeIdle
  /\ SpreadIdle
  /\ ConvIdle
  /\ ExtIdle

\* native code calls a host function that exits non-locally
OpFuncallExits ==
  /\ pc = "idle"
  /\ ~non_local_exit_check(env)
  /\ env' \in ConvExits
  /\ UNCHANGED <<pc, catchVars, makeVars, spreadVars, convVars, extVars>>

\* nv.non_local_exit_clear()
OpNonLocalExitClear ==
  /\ pc = "idle"
  /\ env' = non_local_exit_clear(env)
  /\ envAtCatch' = env
  /\ pc' = "op:clear"
  /\ UNCHANGED <<Box, exc, makeVars, spreadVars, convVars, extVars>>

\* nv.rethrow_non_local_exit<u>()
OpRethrowNonLocalExit ==
  /\ pc = "idle"
  /\ \E u \in BOOLEAN :
       \E r \in {rethrow_non_local_exit(u, Box, env)} :
         /\ Unbox' = u
         /\ env' = r.env
         /\ exc' = r.exc
  /\ envAtCatch' = env
  /\ pc' = "op:rethrow"
  /\ UNCHANGED <<Box, makeVars, spreadVars, extVars, Arg, T, val, src, ret, fault, issued>>

\* nv.maybe_non_local_exit<u>()
OpMaybeNonLocalExit ==
  /\ pc = "idle"
  /\ \E u \in BOOLEAN :
       \E r \in {maybe_non_local_exit(u, Box, env)} :
         /\ Unbox' = u
         /\ env' = r.env
         /\ exc' = r.exc
  /\ envAtCatch' = env
  /\ pc' = "op:maybe"
  /\ UNCHANGED <<Box, makeVars, spreadVars, extVars, Arg, T, val, src, ret, fault, issued>>

\* nv.extract<t>(v), also the from_emacs of a user_ptr
OpExtract ==
  /\ pc = "idle"
  /\ \E t \in Types : \E v \in OpValues : \E f \in Faults(t) :
       \E r \in {extract(t, Box, env, v, f)} :
         /\ T' = t
         /\ val' = v
         /\ fault' = f
         /\ env' = r.env
         /\ exc' = r.exc
  /\ envAtCatch' = env
  /\ Unbox' = Box
  /\ pc' = "op:extract"
  /\ UNCHANGED <<Box, makeVars, spreadVars, extVars, Arg, src, ret, issued>>

\* nv.inject(a), nv->*a: to_emacs for every type, a user_ptr included
OpInject ==
  /\ pc = "idle"
  /\ \E arg \in Types : \E a \in NativeValues(arg) : \E ok \in BOOLEAN :
       \E o \in to_emacs(arg, env, a, ok) :
         /\ Arg' = arg
         /\ env' = o.env
  /\ envAtCatch' = env
  /\ pc' = "op:inject"
  /\ UNCHANGED <<Box, exc, makeVars, spreadVars, extVars, Unbox, T, val, src, ret, fault, issued>>

\* nv.run_catching<Box>(f) where f throws e: the handler
OpRunCatching ==
  /\ pc = "idle"
  /\ \E e \in Exceptions :
       \E r \in {run_catching_handle_current(Box, env, e)} :
         /\ exc' = e
         /\ env' = r.env
         /\ pc' = IF r.escaped THEN "terminated" ELSE "op:run_catching"
  /\ envAtCatch' = env
  /\ UNCHANGED <<Box, makeVars, spreadVars, convVars, extVars>>

\* nv->*std::move(f): module_function_repr<F>::make
OpMake ==
  /\ pc = "idle"
  /\ \E ok \in BOOLEAN : env' = module_function_repr_make(env, ok)
  /\ envAtCatch' = env
  /\ pc' = "op:make"
  /\ UNCHANGED <<Box, exc, makeVars, spreadVars, convVars, extVars>>

\* nv.run_scoped(f)
OpRunScoped ==
  /\ pc = "idle"
  /\ \E noexc \in BOOLEAN : \E ok \in BOOLEAN :
       \E inner \in NestedExits \cup {ExitReturn} : \E e \in ScopeExceptions \cup {NoExc} :
         \E r \in {run_scoped(noexc, Box, env, ok, inner, IF noexc THEN NoExc ELSE e)} :
           /\ IsNoexcept' = noexc
           /\ env' = r.env
           /\ exc' = r.exc
  /\ envAtCatch' = env
  /\ pc' = "op:run_scoped"
  /\ UNCHANGED <<Box, makeVars, spreadVars, convVars, verVars, closureVars, ownVars, nested, exn, fexc>>

\* native code goes on after the operation, or catches what it threw
OpResumes ==
  /\ pc \in OpEnded
  /\ pc' = "idle"
  /\ exc' = NoExc
  /\ envAtCatch' = ExitReturn
  /\ Unbox' = FALSE /\ Arg' = "none" /\ T' = "none"
  /\ val' = NoHostValue /\ fault' = NoFault
  /\ IsNoexcept' = FALSE
  /\ UNCHANGED <<env, Box, makeVars, spreadVars, verVars, closureVars, ownVars, src, ret, issued, nested, exn, fexc>>

NextOps ==
  \/ OpFuncallExits
  \/ OpNonLocalExitClear
  \/ OpRethrowNonLocalExit
  \/ OpMaybeNonLocalExit
  \/ OpExtract
  \/ OpInject
  \/ OpRunCatching
  \/ OpMake
  \/ OpRunScoped
  \/ OpResumes

SpecOps == InitOps /\ [][NextOps]_vars

----------------------------------------------------------------------------
(* Properties of the exception translation (SpecCatch).                    *)

\* C1: whatever F throws, for Box false or true and with or without an exit
\* pending, the noexcept entry point returns to the host: no exception
\* leaves it (which would call std::terminate).
C1_NoExceptionEscapes == pc # "terminated"

\* C2: with no exit pending when the exception is caught, a thrown
\* cppemacs::signal(tag, data) leaves exactly signal(tag, data) pending and a
\* thrown cppemacs::thrown(tag, data) leaves exactly throw(tag, data) pending.
C2_ReplayedExactly ==
  (pc = "returned" /\ ~non_local_exit_check(envAtCatch)) =>
    /\ exc.type = "signal" => env = ExitSignal(exc.symbol, exc.data)
    /\ exc.type = "thrown" => env = ExitThrow(exc.symbol, exc.data)

C2_Witness ==
  /\ pc = "returned" /\ exc.type = "thrown" /\ envAtCatch = ExitReturn
  /\ env = ExitThrow(Sym("hello"), Sym("thrown-value"))

C4_PendingExitUntouched ==
  (pc \in {"returned", "terminated"} /\ exc # NoExc /\ non_local_exit_check(envAtCatch)) =>
    (pc = "returned" /\ env = envAtCatch)

C4_Witness ==
  /\ pc = "returned" /\ exc.type = "signal" /\ envAtCatch.kind = "throw"
  /\ exc.symbol # envAtCatch.symbol /\ env = envAtCatch

----------------------------------------------------------------------------
(* Properties of module_function_repr<F>::make (SpecMake).                 *)

\* the value make returned has not been collected
ValueAlive == (result = "retfn" /\ heap.retfn) \/ (result = "func_sym" /\ heap.sym)

\* C5: the heap F is never destroyed twice, it is owned by native code or
\* by a host object with a finalizer until it is destroyed, it has been
\* destroyed once everything make created is collected, and the use count
\* of a captured handle is one more than before while the host value lives
\* and back to its old value once it is collected.
C5_DestroyedExactlyOnce ==
  /\ deletes <= allocs
  /\ allocs <= 1
  /\ fptr => allocs - deletes = 1
  /\ Collected => deletes = allocs
  /\ (pc \in {"returned", "host"} /\ result \in {"retfn", "func_sym"} /\ ValueAlive)
       => use_count = 2
  /\ Collected => use_count = 1

C5_Witness ==
  /\ Collected /\ result = "func_sym" /\ allocs = 1 /\ deletes = 1 /\ calls > 0

\* the position in the log of the first entry e, or 0
RECURSIVE FirstAt(_, _, _)
FirstAt(l, e, i) ==
  IF i > Len(l) THEN 0 ELSE IF l[i] = e THEN i ELSE FirstAt(l, e, i + 1)
Before(e1, e2) == FirstAt(log, e1, 1) # 0 /\ FirstAt(log, e1, 1) < FirstAt(log, e2, 1)

\* C6 as claimed: release comes only after the check that confirms
\* set_function_finalizer (direct path), respectively the check that
\* confirms `put' (symbol+property path).
C6_ReleaseAfterLinkConfirmed ==
  FirstAt(log, "release", 1) # 0 =>
    IF compat28 THEN Before("confirmed:set_function_finalizer", "release")
    ELSE Before("confirmed:put", "release")

\* C6 amended: release comes only after the check that confirms the object
\* bearing the finalizer: set_function_finalizer on the direct path,
\* make_user_ptr on the symbol+property path, where `put' follows release.
C6_ReleaseAfterFinalizerConfirmed ==
  /\ FirstAt(log, "release", 1) # 0 =>
       IF compat28 THEN Before("confirmed:set_function_finalizer", "release")
       ELSE Before("confirmed:make_user_ptr", "release")
  /\ FirstAt(log, "put", 1) # 0 => Before("release", "put")

C6_Witness ==
  /\ ~compat28 /\ result = "func_sym"
  /\ Before("release", "confirmed:put")

----------------------------------------------------------------------------
(* Properties of the arity dispatch (SpecSpread).                          *)

InRange == MinArity <= nargs /\ nargs <= MaxArity

\* C7: a call with MinArity <= argc <= MaxArity invokes F exactly once with
\* MaxArity parameters, parameter i being the cell of args[i] for i < argc
\* and a default-constructed placeholder for i >= argc, and reads no args[j]
\* with j >= argc.
C7_SpreadsArguments ==
  (pc \in {"returned", "crashed"} /\ InRange) =>
    /\ pc = "returned"
    /\ recv.called = 1
    /\ Len(recv.params) = MaxArity
    /\ \A i \in 0..(MaxArity - 1) :
         recv.params[i + 1] = IF i < nargs THEN i ELSE Default
    /\ recv.reads \subseteq 0..(nargs - 1)

\* C8: for every argc in [MinArity, MaxArity] the table index used lies in
\* [0, MaxArity - MinArity] and the entry selected is the handler for arity
\* argc.
C8_TableIndexInRange ==
  (pc \in {"returned", "crashed"} /\ InRange) =>
    /\ recv.vtIndex \in 0..(MaxArity - MinArity)
    /\ recv.vtArity = nargs

\* C9: a call with argc < MinArity, or with argc > MaxArity when not
\* variadic, does not invoke F and leaves the error "Bad arity" pending.
C9_BadArityReported ==
  (/\ pc \in {"returned", "crashed", "terminated"}
   /\ (nargs < MinArity \/ (nargs > MaxArity /\ ~IsVariadic))) =>
    /\ pc = "returned"
    /\ recv.called = 0
    /\ env = ExitSignal(Sym("error"), List1("Bad arity"))

C9_Witness ==
  /\ pc = "returned" /\ nargs < MinArity /\ recv.called = 0
  /\ env = ExitSignal(Sym("error"), List1("Bad arity"))

\* C10: a variadic closure called with argc > MaxArity passes F the first
\* MaxArity arguments as cells and a view with data args + MaxArity and size
\* argc - MaxArity; called with MinArity <= argc <= MaxArity it passes F an
\* empty view.
C10_RestargsView ==
  (IsVariadic /\ pc \in {"returned", "crashed"}) =>
    /\ nargs > MaxArity =>
         /\ pc = "returned" /\ recv.called = 1 /\ recv.hasRest
         /\ recv.params = [i \in 1..MaxArity |-> i - 1]
         /\ recv.rest = [data |-> MaxArity, size |-> nargs - MaxArity]
    /\ InRange =>
         /\ pc = "returned" /\ recv.called = 1 /\ recv.hasRest
         /\ recv.rest.size = 0

\* C11: a function made with IsVariadic true is registered so that Lisp can
\* call it with any number of arguments >= MinArity, more than MaxArity
\* included: the host never rejects such a call.
C11_VariadicRegistered ==
  (pc = "rejected" /\ IsVariadic) => nargs < MinArity

----------------------------------------------------------------------------
(* Properties of the conversions and of the exit checks (SpecConv).        *)

Extracted == pc \in {"extract:returned", "extract:threw"}
\* inject converted src with no exit pending, and none came up before extract
Injected == src # NoNative /\ val # NoHostValue /\ ~non_local_exit_check(envAtCatch)
\* the host answered every call of the decode
HostAnswers == fault.len /\ fault.fill

\* C12: extract<T> never returns a T when an exit is pending: if it returns,
\* no exit was pending before the call and none is pending after the host
\* decode calls; otherwise it throws.  For every T of the model.
C12_NoValueWhilePending ==
  pc = "extract:returned" =>
    ~non_local_exit_check(envAtCatch) /\ ~non_local_exit_check(env)

C12_Witness ==
  /\ pc = "extract:threw" /\ T = "double" /\ val = HStr("ab")
  /\ ~non_local_exit_check(envAtCatch) /\ env = WrongTypeArgument
  /\ exc = non_local_exit

\* C13: decoding the host integer h as an integral type no wider than
\* intmax_t, with no exit pending, returns exactly h when h is within the
\* limits of the type and otherwise throws, never returning a wrapped value:
\* std::runtime_error("Integer out of range") when h fits intmax_t, the
\* host's overflow-error when it does not.
C13_IntegerRangeChecked ==
  (/\ Extracted /\ is_integral_smaller_than_intmax(T) /\ val.k = "int"
   /\ ~non_local_exit_check(envAtCatch)) =>
    IF numeric_limits_min(T) <= val.n /\ val.n <= numeric_limits_max(T)
    THEN pc = "extract:returned" /\ ret = NInt(val.n)
    ELSE /\ pc = "extract:threw"
         /\ IF numeric_limits_min("intmax_t") <= val.n /\ val.n <= numeric_limits_max("intmax_t")
            THEN exc = runtime_error("Integer out of range")
            ELSE envAtCatch = ExitReturn /\ (~Box => env = OverflowError)

C13_Witness ==
  /\ pc = "extract:threw" /\ T = "short"
  /\ val = HInt(numeric_limits_max("int") + 1)
  /\ exc = runtime_error("Integer out of range")

\* C14: for std::string, bool and every integral type no wider than
\* intmax_t, a value converted to the host and decoded as the same type,
\* with no exit pending and the host answering, comes back equal.
C14_RoundTrip ==
  (/\ Extracted /\ Injected /\ HostAnswers /\ T = Arg
   /\ (T \in {"std::string", "bool"} \/ is_integral_smaller_than_intmax(T))) =>
    pc = "extract:returned" /\ ret = src

C14_Witness ==
  /\ pc = "extract:returned" /\ Arg = "intmax_t" /\ T = "intmax_t"
  /\ src = NInt(numeric_limits_min("intmax_t")) /\ ret = src

\* C15: every uintmax_t value, converted to a host integer and decoded back
\* as uintmax_t with no exit pending and the host answering, comes back
\* equal.
C15_UintmaxRoundTrip ==
  (Extracted /\ Injected /\ HostAnswers /\ Arg = "uintmax_t" /\ T = "uintmax_t") =>
    pc = "extract:returned" /\ ret = src

\* C16: decoding as uintmax_t a negative integer, an integer greater than
\* UINTMAX_MAX or a value that is not an integer always throws.
C16_UintmaxRejects ==
  (/\ Extracted /\ T = "uintmax_t" /\ val # NoHostValue
   /\ (val.k # "int" \/ val.n < 0 \/ val.n > numeric_limits_max("uintmax_t"))) =>
    pc = "extract:threw"

C16_Witness ==
  /\ pc = "extract:threw" /\ T = "uintmax_t"
  /\ val = HInt(numeric_limits_min("intmax_t")) /\ HostAnswers
  /\ ~non_local_exit_check(envAtCatch)
  /\ exc = runtime_error("Integer out of range")

\* C17: if the length query or the fill of a string decode reports failure,
\* extract<std::string> throws and returns no string, whether or not the
\* host left an exit pending.
C17_StringFailureThrows ==
  (/\ Extracted /\ T = "std::string" /\ ~non_local_exit_check(envAtCatch)
   /\ (~fault.len \/ (val.k = "str" /\ ~fault.fill))) =>
    pc = "extract:threw"

\* C18: rethrow_non_local_exit<false> returns and leaves the state normal
\* when the state is normal; on signal(tag, data) it throws cppemacs::signal
\* with that tag and data, on throw(tag, data) cppemacs::thrown with that
\* tag and data, and the state is normal once the exception is in flight.
C18_RethrowClears ==
  (pc \in {"rethrow:returned", "rethrow:threw"} /\ ~Unbox) =>
    /\ env = ExitReturn
    /\ envAtCatch.kind = "return" => pc = "rethrow:returned" /\ exc = NoExc
    /\ envAtCatch.kind = "signal" =>
         pc = "rethrow:threw" /\ exc = signal(envAtCatch.symbol, envAtCatch.data)
    /\ envAtCatch.kind = "throw" =>
         pc = "rethrow:threw" /\ exc = thrown(envAtCatch.symbol, envAtCatch.data)

C18_Witness ==
  /\ pc = "rethrow:threw" /\ ~Unbox
  /\ envAtCatch = ExitThrow(Sym("hello"), Sym("thrown-value"))
  /\ exc = thrown(Sym("hello"), Sym("thrown-value")) /\ env = ExitReturn

\* C19: maybe_non_local_exit<false> throws the payload-free non_local_exit
\* exactly when an exit is pending, and the pending exit (kind, tag, data)
\* is the same after the call as before, whether it returns or throws.
C19_MaybeKeepsExit ==
  (pc \in {"maybe:returned", "maybe:threw"} /\ ~Unbox) =>
    /\ (pc = "maybe:threw") = non_local_exit_check(envAtCatch)
    /\ pc = "maybe:threw" => exc = non_local_exit
    /\ env = envAtCatch

C19_Witness ==
  /\ pc = "maybe:threw" /\ ~Unbox /\ exc = non_local_exit
  /\ envAtCatch.kind = "signal" /\ env = envAtCatch

\* C20: a host value made from user_ptr<U> decodes as user_ptr<U> to the raw
\* pointer that was injected, and decoding it as any other user_ptr type
\* throws "User ptr type mismatch".
C20_UserPtrTypeChecked ==
  (/\ Extracted /\ Injected /\ Arg \in UserPtrTypes /\ T \in UserPtrTypes
   /\ val = HUserPtr(user_ptr_fin(pointee(Arg)), src.n)) =>
    IF T = Arg
    THEN pc = "extract:returned" /\ ret = NPtr(pointee(Arg), src.n)
    ELSE pc = "extract:threw" /\ exc = runtime_error("User ptr type mismatch")

C20_Witness ==
  /\ pc = "extract:threw" /\ Arg = user_ptr("A") /\ T = user_ptr("Base")
  /\ val = HUserPtr(user_ptr_fin("A"), 2) /\ src = NPtr("A", 2)
  /\ exc = runtime_error("User ptr type mismatch")

C28_NoDecodeWhilePending == Extracted => ~issued.pending

----------------------------------------------------------------------------
(* Properties of the version checks (SpecVersion).                         *)

\* C25: for every N in 25..29, is_compatible<N>() is true exactly when
\* size() >= sizeof(emacs_env_N), and check_compatible<N>() throws
\* std::runtime_error("Emacs major version N required") exactly when
\* is_compatible<N>() is false and otherwise returns.
C25_VersionCheck ==
  /\ pc = "is_compatible:returned" =>
       compatible = (envSize >= sizeof_emacs_env(MajorVersion))
  /\ pc \in {"check_compatible:threw", "check_compatible:returned"} =>
       /\ (pc = "check_compatible:threw") = ~(envSize >= sizeof_emacs_env(MajorVersion))
       /\ pc = "check_compatible:threw" =>
            exc = runtime_error(major_error_message(MajorVersion))
       /\ pc = "check_compatible:returned" => exc = NoExc

----------------------------------------------------------------------------
(* Properties of run_scoped (SpecScope).                                   *)

\* C22: an exception E thrown by the callable is captured, and run_scoped
\* throws exactly E to its caller as its next step once the host funcall has
\* returned; E reaches the caller at no other point, so it never travels
\* through the host call.
C22_RethrownAfterFuncall ==
  [][/\ (pc = "scope:after_funcall" /\ fexc # NoExc) =>
          (pc' = "scope:threw" /\ exc' = fexc)
     /\ (pc = "scope:lambda_return" /\ fexc # NoExc) =>
          (pc' = "scope:after_funcall" /\ exn' = fexc /\ exc' = NoExc)
     /\ (exc' # exc /\ exc' # NoExc) => pc = "scope:after_funcall"]_vars

C22_Witness ==
  /\ pc = "scope:threw" /\ fexc = other_exception /\ exc = other_exception
  /\ ~non_local_exit_check(env)

\* C23: the nested host call returns normally whatever the callable did:
\* when the function made for the callable returns and the host funcall
\* returns to run_scoped, no exit is pending on the outer environment.
C23_NestedCallReturnsNormally ==
  [][pc = "scope:lambda_return" => ~non_local_exit_check(env')]_vars

----------------------------------------------------------------------------
(* Properties of the calls of a converted closure (SpecClosure).           *)

----------------------------------------------------------------------------
(* Properties of the ownership of user pointers (SpecOwn).                 *)

\* C21: to_emacs of a user_ptr deallocates the pointee at once, exactly
\* once, if an exit is pending before the call or make_user_ptr fails;
\* otherwise the host owns it and its finalizer deallocates it exactly once
\* at collection; the pointee is never deallocated twice, and it is never
\* without an owner while it is not deallocated.
C21_DeallocatedExactlyOnce ==
  [][/\ (pc = "idle" /\ pc' = "own:converted") =>
          IF non_local_exit_check(env) \/ non_local_exit_check(env')
          THEN owner' = "freed" /\ frees' = 1
          ELSE owner' = "host" /\ frees' = 0
     /\ (pc = "own:converted" /\ owner = "host" /\ owner' # "host") =>
          (owner' = "freed" /\ frees' = 1 /\ ~referenced)
     /\ pc' = "own:converted" => (frees' <= 1 /\ (frees' = 0 <=> owner' = "host"))]_vars

C21_Witness ==
  /\ pc = "own:converted"
  /\ owner = "freed"
  /\ frees = 1
  /\ ~non_local_exit_check(envAtCatch)
  /\ env = HostFailure

\* C24: with Box and Unbox true, an exception X that is not a signal, a
\* thrown or exactly std::runtime_error, thrown inside run_catching<true>
\* with no exit pending and all host calls succeeding, leaves a pending
\* cppemacs--exception signal holding X, and the following
\* rethrow_non_local_exit<true>() throws X and leaves the state normal.
C24_BoxedRoundTrip ==
  /\ pc = "terminated" => exc.type \notin {"other", "logic_error"}
  /\ (pc = "own:signalled" /\ ~non_local_exit_check(envAtCatch) /\ hostOk) =>
       env = ExitSignal(Sym("cppemacs--exception"), UserPtrExn(boxedX.type, boxedX.what))
  /\ (pc = "own:rethrown" /\ ~non_local_exit_check(envAtCatch) /\ hostOk) =>
       (exc = boxedX /\ boxedX # NoExc /\ ~non_local_exit_check(env))

\* C30: the std::exception_ptr that the Box handler allocates is never
\* leaked: it is owned by a host user pointer or deleted, whichever host
\* call of the handler fails.
C30_BoxNeverLeaked == owner # "leaked"

----------------------------------------------------------------------------
(* Properties of the sequences of operations (SpecOps).                    *)

\* an operation that changes an exit that was pending at its call
ChangesPendingExit == non_local_exit_check(env) /\ env' # env

====
